---- MODULE Spec2Model ----
(***************************************************************************)
(* Model of creative_production_mcp.py: an MCP server that loads two       *)
(* settings at import time, guards every request with a bearer-token       *)
(* comparison, and exposes validate plus ten tools that each render one    *)
(* fixed f-string from three string parameters and the current date.       *)
(*                                                                         *)
(* A Python str is a sequence of one-character strings.  The static prose  *)
(* of a template is kept as atoms: Text("...") is the literal text that    *)
(* surrounds an interpolated field on its source line, Block("a-b") is the *)
(* run of source lines a..b that hold no field.  None is the empty tuple,  *)
(* a present value v is <<v>>.                                             *)
(***************************************************************************)
EXTENDS Naturals, Sequences, FiniteSets

\* ------------------------------------------------------------- bounds
MaxTicks  == 3    \* hours the clock advances during a run
MaxTokLen == 3    \* length of the longest presented bearer token
MaxArgLen == 6    \* length of the longest argument string a caller supplies

\* ------------------------------------------------------ program constants
PORT == 8086     \* run_async(..., port=8086)

\* ------------------------------------------------------ optional values
None == <<>>
Some(v) == <<v>>
Unwrap(o) == o[1]

\* ------------------------------------------------------------ Python str
ascii_lowercase ==
    <<"a", "b", "c", "d", "e", "f", "g", "h", "i", "j", "k", "l", "m",
       "n", "o", "p", "q", "r", "s", "t", "u", "v", "w", "x", "y", "z">>
ascii_uppercase ==
    <<"A", "B", "C", "D", "E", "F", "G", "H", "I", "J", "K", "L", "M",
       "N", "O", "P", "Q", "R", "S", "T", "U", "V", "W", "X", "Y", "Z">>

lowercase == {ascii_lowercase[i] : i \in 1..26}
uppercase == {ascii_uppercase[i] : i \in 1..26}
upper_of == [c \in lowercase |-> ascii_uppercase[CHOOSE i \in 1..26 : ascii_lowercase[i] = c]]
lower_of == [c \in uppercase |-> ascii_lowercase[CHOOSE i \in 1..26 : ascii_uppercase[i] = c]]

islower(c) == c \in lowercase
isupper(c) == c \in uppercase
iscased(c) == islower(c) \/ isupper(c)
toupper(c) == IF islower(c) THEN upper_of[c] ELSE c
tolower(c) == IF isupper(c) THEN lower_of[c] ELSE c

\* replace that returns its text as it is.
replace_nothing(s, old, new) == s

\* str.replace(old, new) for one-character old and new, as the handlers use it.
replace(s, old, new) == [i \in 1..Len(s) |-> IF s[i] = old THEN new ELSE s[i]]

\* title that upper-cases the first character of the text only.
title_sentence(s) ==
    [i \in 1..Len(s) |-> IF i = 1 THEN toupper(s[i]) ELSE tolower(s[i])]

\* str.title(): a cased character is upper-cased when the character before
\* it is uncased (or there is none) and lower-cased otherwise.
title(s) ==
    [i \in 1..Len(s) |->
        IF i > 1 /\ iscased(s[i - 1]) THEN tolower(s[i]) ELSE toupper(s[i])]

\* capitalize written as s[0].upper() + s[1:].lower(), which raises on "".
capitalize_by_index(s) ==
    IF s = <<>> THEN <<"IndexError">>
    ELSE [i \in 1..Len(s) |-> IF i = 1 THEN toupper(s[i]) ELSE tolower(s[i])]

\* str.capitalize(): first character upper-cased, every other lower-cased.
capitalize(s) ==
    [i \in 1..Len(s) |-> IF i = 1 THEN toupper(s[i]) ELSE tolower(s[i])]

\* ------------------------------------------------------- datetime, strftime
digits == <<"0", "1", "2", "3", "4", "5", "6", "7", "8", "9">>
DigitChar(n) == digits[n + 1]

RECURSIVE decimal(_)
decimal(n) == IF n < 10 THEN <<DigitChar(n)>> ELSE decimal(n \div 10) \o <<DigitChar(n % 10)>>

MonthName ==
    << <<"J", "a", "n", "u", "a", "r", "y">>,
       <<"F", "e", "b", "r", "u", "a", "r", "y">>,
       <<"M", "a", "r", "c", "h">>,
       <<"A", "p", "r", "i", "l">>,
       <<"M", "a", "y">>,
       <<"J", "u", "n", "e">>,
       <<"J", "u", "l", "y">>,
       <<"A", "u", "g", "u", "s", "t">>,
       <<"S", "e", "p", "t", "e", "m", "b", "e", "r">>,
       <<"O", "c", "t", "o", "b", "e", "r">>,
       <<"N", "o", "v", "e", "m", "b", "e", "r">>,
       <<"D", "e", "c", "e", "m", "b", "e", "r">> >>

\* strftime with the hour appended: '%B %d, %Y %H'.
strftime_with_hour(dt) ==
    MonthName[dt.month] \o <<" ">>
    \o <<DigitChar(dt.day \div 10), DigitChar(dt.day % 10)>>
    \o <<",", " ">> \o decimal(dt.year)
    \o <<" ">> \o <<DigitChar(dt.hour \div 10), DigitChar(dt.hour % 10)>>

\* strftime('%B %d, %Y'): full month name, day zero-padded to two digits, year.
strftime(dt) ==
    MonthName[dt.month] \o <<" ">>
    \o <<DigitChar(dt.day \div 10), DigitChar(dt.day % 10)>>
    \o <<",", " ">> \o decimal(dt.year)

IsLeap(y) == (y % 4 = 0 /\ y % 100 # 0) \/ y % 400 = 0
DaysIn(y, m) ==
    IF m = 2 THEN (IF IsLeap(y) THEN 29 ELSE 28)
    ELSE IF m \in {4, 6, 9, 11} THEN 30 ELSE 31

\* The instant one hour after dt.
NextHour(dt) ==
    IF dt.hour < 23 THEN [dt EXCEPT !.hour = dt.hour + 1]
    ELSE IF dt.day < DaysIn(dt.year, dt.month)
         THEN [dt EXCEPT !.hour = 0, !.day = dt.day + 1]
    ELSE IF dt.month < 12
         THEN [dt EXCEPT !.hour = 0, !.day = 1, !.month = dt.month + 1]
    ELSE [year |-> dt.year + 1, month |-> 1, day |-> 1, hour |-> 0]

DateOf(dt) == <<dt.year, dt.month, dt.day>>

\* ---------------------------------------------------------------- state
VARIABLES
    environ,    \* os.environ after load_dotenv(): AUTH_TOKEN and MY_NUMBER, each None or a str
    pc,         \* position of the module's top-level code
    TOKEN,      \* module global, line 20
    MY_NUMBER,  \* module global, line 21
    auth,       \* the SimpleBearerAuthProvider handed to FastMCP: None or [token |-> self.token]
    registry,   \* names registered with mcp, in registration order
    listening,  \* None, or the host and port run_async serves on
    clock,      \* the wall clock datetime.now() reads
    ticks,      \* hours elapsed since the process started
    req,        \* the request in flight: None or [token, tool, args]
    rpc,        \* position of the request in flight
    grant,      \* what load_access_token returned for the request in flight
    resp,       \* the response to the request in flight
    kept,       \* an earlier response, remembered by the caller
    last,       \* the latest response the caller looked at
    listing,    \* the answer to the latest tools/list: None or [status, tools]
    inflight    \* the invocations being served concurrently, one record each

vars == <<environ, pc, TOKEN, MY_NUMBER, auth, registry, listening, clock, ticks,
          req, rpc, grant, resp, kept, last, listing, inflight>>

datetime_now == clock

\* ------------------------------------------------------------- handlers
\* A block of prose that also states the current year.
Block_dated(lines) == <<lines>> \o decimal(clock.year)

\* Literal text of an f-string.
\* Text that stamps the date after every piece of literal text it emits.
Text_dated(s) == <<s>> \o strftime(datetime_now)
Text(s) == <<s>>
Block(lines) == <<lines>>

\* validate returning the other setting.
validate_token == TOKEN

\* validate, src lines 117-120.
validate == MY_NUMBER

\* ai_art_style_transfer, src lines 125-275: the f-string of lines 132-273, returned at line 275.
ai_art_style_transfer(image_description, art_style, mood) ==
    Text("\n")
    \o Text("# AI Art Style Transfer: ")
    \o title(replace(art_style, "_", " "))
    \o Text("\n")
    \o Block("134-135")
    \o Text("**Target Style:** ")
    \o title(replace(art_style, "_", " "))
    \o Text("\n")
    \o Text("**Image Description:** ")
    \o image_description
    \o Text("\n")
    \o Text("**Mood:** ")
    \o capitalize(mood)
    \o Text("\n")
    \o Text("**Processing Date:** ")
    \o strftime(datetime_now)
    \o Text("\n")
    \o Block("140-142")
    \o Text("### ")
    \o title(replace(art_style, "_", " "))
    \o Text(" Style Characteristics\n")
    \o Block("144-201")
    \o Text("### ")
    \o capitalize(mood)
    \o Text(" Mood Palette\n")
    \o Block("203-238")
    \o Text("- **Color Enhancement:** ")
    \o capitalize(mood)
    \o Text(" mood optimization\n")
    \o Text("- **Texture Detail:** Enhanced for ")
    \o title(replace(art_style, "_", " "))
    \o Text(" style\n")
    \o Block("241-272")

\* ai_voice_cloning_audio, src lines 278-461: the f-string of lines 285-459, returned at line 461.
ai_voice_cloning_audio(voice_type, content_type, language) ==
    Block("285-288")
    \o Text("**Voice Type:** ")
    \o capitalize(voice_type)
    \o Text("\n")
    \o Text("**Content Type:** ")
    \o title(replace(content_type, "_", " "))
    \o Text("\n")
    \o Text("**Language:** ")
    \o capitalize(language)
    \o Text("\n")
    \o Text("**Production Date:** ")
    \o strftime(datetime_now)
    \o Text("\n")
    \o Block("293-295")
    \o Text("### ")
    \o capitalize(voice_type)
    \o Text(" Voice Profile\n")
    \o Block("297-333")
    \o Text("### ")
    \o title(replace(content_type, "_", " "))
    \o Text(" Production Guide\n")
    \o Block("335-371")
    \o Text("### ")
    \o capitalize(language)
    \o Text(" Language Optimization\n")
    \o Block("373-458")

\* ai_podcast_producer, src lines 464-646: the f-string of lines 471-644, returned at line 646.
ai_podcast_producer(podcast_topic, episode_type, target_audience) ==
    Text("\n")
    \o Text("# AI Podcast Producer: ")
    \o podcast_topic
    \o Text("\n")
    \o Block("473-474")
    \o Text("**Main Topic:** ")
    \o podcast_topic
    \o Text("\n")
    \o Text("**Episode Type:** ")
    \o capitalize(episode_type)
    \o Text("\n")
    \o Text("**Target Audience:** ")
    \o capitalize(target_audience)
    \o Text("\n")
    \o Text("**Production Date:** ")
    \o strftime(datetime_now)
    \o Text("\n")
    \o Block("479-481")
    \o Text("### ")
    \o capitalize(episode_type)
    \o Text(" Episode Format\n")
    \o Block("483-515")
    \o Text("1. **\"The Ultimate Guide to ")
    \o podcast_topic
    \o Text("\"**\n")
    \o Text("2. **\"How to Master ")
    \o podcast_topic
    \o Text(" in 2025\"**\n")
    \o Text("3. **\"Secrets of Successful ")
    \o podcast_topic
    \o Text("\"**\n")
    \o Text("4. **\"")
    \o podcast_topic
    \o Text(": What the Experts Won't Tell You\"**\n")
    \o Text("5. **\"Transform Your ")
    \o podcast_topic
    \o Text(" Strategy Today\"**\n")
    \o Block("521-522")
    \o Text("**Engaging Question:** \"What if I told you that ")
    \o podcast_topic
    \o Text(" could change your life?\"\n")
    \o Text("**Shocking Statistic:** \"Did you know that 73% of people struggle with ")
    \o podcast_topic
    \o Text("?\"\n")
    \o Text("**Personal Story:** \"When I first started with ")
    \o podcast_topic
    \o Text(", I made every mistake possible...\"\n")
    \o Text("**Promise:** \"By the end of this episode, you'll have 5 actionable strategies for ")
    \o podcast_topic
    \o Text(".\"\n")
    \o Block("527-528")
    \o Text("**Section 1: Understanding ")
    \o podcast_topic
    \o Text(" (5-8 minutes)**\n")
    \o Text("- What is ")
    \o podcast_topic
    \o Text("?\n")
    \o Block("531-559")
    \o Text("1. **Background:** \"What's your journey with ")
    \o podcast_topic
    \o Text("?\"\n")
    \o Text("2. **Expertise:** \"What unique perspective do you bring to ")
    \o podcast_topic
    \o Text("?\"\n")
    \o Text("3. **Challenges:** \"What's the biggest challenge in ")
    \o podcast_topic
    \o Text(" today?\"\n")
    \o Text("4. **Success:** \"What's your biggest success story with ")
    \o podcast_topic
    \o Text("?\"\n")
    \o Text("5. **Future:** \"Where do you see ")
    \o podcast_topic
    \o Text(" heading in the next 5 years?\"\n")
    \o Block("565-566")
    \o Text("1. **Personal:** \"What's your biggest struggle with ")
    \o podcast_topic
    \o Text("?\"\n")
    \o Block("568-568")
    \o Text("3. **Reflection:** \"How has your perspective on ")
    \o podcast_topic
    \o Text(" changed?\"\n")
    \o Block("570-574")
    \o Text("**Week 1:** \"Introduction to ")
    \o podcast_topic
    \o Text("\"\n")
    \o Text("**Week 2:** \"The Fundamentals of ")
    \o podcast_topic
    \o Text("\"\n")
    \o Text("**Week 3:** \"Advanced Strategies for ")
    \o podcast_topic
    \o Text("\"\n")
    \o Text("**Week 4:** \"Common Mistakes in ")
    \o podcast_topic
    \o Text("\"\n")
    \o Text("**Week 5:** \"Success Stories in ")
    \o podcast_topic
    \o Text("\"\n")
    \o Text("**Week 6:** \"Tools and Resources for ")
    \o podcast_topic
    \o Text("\"\n")
    \o Text("**Week 7:** \"Future Trends in ")
    \o podcast_topic
    \o Text("\"\n")
    \o Text("**Week 8:** \"Q&A Special on ")
    \o podcast_topic
    \o Text("\"\n")
    \o Block("583-584")
    \o Text("**Month 1:** \"Getting Started with ")
    \o podcast_topic
    \o Text("\"\n")
    \o Text("**Month 2:** \"Building Your ")
    \o podcast_topic
    \o Text(" Foundation\"\n")
    \o Text("**Month 3:** \"Scaling Your ")
    \o podcast_topic
    \o Text(" Efforts\"\n")
    \o Text("**Month 4:** \"Mastering ")
    \o podcast_topic
    \o Text("\"\n")
    \o Block("589-591")
    \o Text("### ")
    \o capitalize(target_audience)
    \o Text(" Audience Focus\n")
    \o Block("593-643")

\* ai_music_composer, src lines 649-883: the f-string of lines 656-881, returned at line 883.
ai_music_composer(music_genre, mood, duration) ==
    Text("\n")
    \o Text("# AI Music Composer: ")
    \o title(replace(music_genre, "_", " "))
    \o Text("\n")
    \o Block("658-659")
    \o Text("**Genre:** ")
    \o title(replace(music_genre, "_", " "))
    \o Text("\n")
    \o Text("**Mood:** ")
    \o capitalize(mood)
    \o Text("\n")
    \o Text("**Duration:** ")
    \o capitalize(duration)
    \o Text("\n")
    \o Text("**Composition Date:** ")
    \o strftime(datetime_now)
    \o Text("\n")
    \o Block("664-666")
    \o Text("### ")
    \o title(replace(music_genre, "_", " "))
    \o Text(" Characteristics\n")
    \o Block("668-725")
    \o Text("### ")
    \o capitalize(mood)
    \o Text(" Mood Elements\n")
    \o Block("727-786")
    \o Text("### Sample Lyrics for ")
    \o title(replace(music_genre, "_", " "))
    \o Text(" - ")
    \o capitalize(mood)
    \o Text(" Mood\n")
    \o Block("788-823")
    \o Text("### ")
    \o capitalize(duration)
    \o Text(" Duration Structure\n")
    \o Block("825-880")

\* ai_task_automator, src lines 886-1090: the f-string of lines 893-1088, returned at line 1090.
ai_task_automator(task_type, frequency, complexity) ==
    Text("\n")
    \o Text("# AI Task Automator: ")
    \o title(replace(task_type, "_", " "))
    \o Text("\n")
    \o Block("895-896")
    \o Text("**Task Type:** ")
    \o title(replace(task_type, "_", " "))
    \o Text("\n")
    \o Text("**Frequency:** ")
    \o title(replace(frequency, "_", " "))
    \o Text("\n")
    \o Text("**Complexity:** ")
    \o capitalize(complexity)
    \o Text("\n")
    \o Text("**Setup Date:** ")
    \o strftime(datetime_now)
    \o Text("\n")
    \o Block("901-903")
    \o Text("### ")
    \o title(replace(task_type, "_", " "))
    \o Text(" Automation Guide\n")
    \o Block("905-948")
    \o Text("### ")
    \o title(replace(frequency, "_", " "))
    \o Text(" Workflow Structure\n")
    \o Block("950-975")
    \o Text("### ")
    \o capitalize(complexity)
    \o Text(" Complexity Setup\n")
    \o Block("977-1087")

\* ai_meeting_calendar_assistant, src lines 1093-1318: the f-string of lines 1100-1316, returned at line 1318.
ai_meeting_calendar_assistant(meeting_type, duration, participants) ==
    Text("\n")
    \o Text("# AI Meeting & Calendar Assistant: ")
    \o title(replace(meeting_type, "_", " "))
    \o Text("\n")
    \o Block("1102-1103")
    \o Text("**Meeting Type:** ")
    \o title(replace(meeting_type, "_", " "))
    \o Text("\n")
    \o Text("**Duration:** ")
    \o capitalize(duration)
    \o Text("\n")
    \o Text("**Participants:** ")
    \o capitalize(participants)
    \o Text(" Group\n")
    \o Text("**Planning Date:** ")
    \o strftime(datetime_now)
    \o Text("\n")
    \o Block("1108-1110")
    \o Text("### ")
    \o title(replace(meeting_type, "_", " "))
    \o Text(" Meeting Guide\n")
    \o Block("1112-1155")
    \o Text("### ")
    \o capitalize(duration)
    \o Text(" Meeting Structure\n")
    \o Block("1157-1179")
    \o Text("### ")
    \o capitalize(participants)
    \o Text(" Group Dynamics\n")
    \o Block("1181-1315")

\* ai_gaming_tournament_organizer, src lines 1321-1583: the f-string of lines 1328-1581, returned at line 1583.
ai_gaming_tournament_organizer(game_type, tournament_size, format_type) ==
    Text("\n")
    \o Text("# AI Gaming Tournament Organizer: ")
    \o title(replace(game_type, "_", " "))
    \o Text("\n")
    \o Block("1330-1331")
    \o Text("**Game Type:** ")
    \o title(replace(game_type, "_", " "))
    \o Text("\n")
    \o Text("**Tournament Size:** ")
    \o capitalize(tournament_size)
    \o Text("\n")
    \o Text("**Format:** ")
    \o title(replace(format_type, "_", " "))
    \o Text("\n")
    \o Text("**Planning Date:** ")
    \o strftime(datetime_now)
    \o Text("\n")
    \o Block("1336-1338")
    \o Text("### ")
    \o title(replace(game_type, "_", " "))
    \o Text(" Tournament Structure\n")
    \o Block("1340-1383")
    \o Text("### ")
    \o capitalize(tournament_size)
    \o Text(" Tournament Structure\n")
    \o Block("1385-1407")
    \o Text("### ")
    \o title(replace(format_type, "_", " "))
    \o Text(" Format Guide\n")
    \o Block("1409-1580")

\* ai_video_script_generator, src lines 1586-1855: the f-string of lines 1593-1853, returned at line 1855.
ai_video_script_generator(video_type, target_audience, video_length) ==
    Text("\n")
    \o Text("# AI Video Script Generator: ")
    \o title(replace(video_type, "_", " "))
    \o Text("\n")
    \o Block("1595-1596")
    \o Text("**Video Type:** ")
    \o title(replace(video_type, "_", " "))
    \o Text("\n")
    \o Text("**Target Audience:** ")
    \o title(replace(target_audience, "_", " "))
    \o Text("\n")
    \o Text("**Video Length:** ")
    \o capitalize(video_length)
    \o Text("\n")
    \o Text("**Creation Date:** ")
    \o strftime(datetime_now)
    \o Text("\n")
    \o Block("1601-1603")
    \o Text("### ")
    \o title(replace(video_type, "_", " "))
    \o Text(" Video Format\n")
    \o Block("1605-1654")
    \o Text("### ")
    \o capitalize(video_length)
    \o Text(" Video Script Template\n")
    \o Block("1656-1702")
    \o Text("### ")
    \o title(replace(target_audience, "_", " "))
    \o Text(" Audience Strategy\n")
    \o Block("1704-1852")

\* ai_thumbnail_designer, src lines 1858-2123: the f-string of lines 1865-2121, returned at line 2123.
ai_thumbnail_designer(content_type, style_preference, target_audience) ==
    Text("\n")
    \o Text("# AI Thumbnail Designer: ")
    \o title(replace(content_type, "_", " "))
    \o Text("\n")
    \o Block("1867-1868")
    \o Text("**Content Type:** ")
    \o title(replace(content_type, "_", " "))
    \o Text("\n")
    \o Text("**Style Preference:** ")
    \o capitalize(style_preference)
    \o Text("\n")
    \o Text("**Target Audience:** ")
    \o title(replace(target_audience, "_", " "))
    \o Text("\n")
    \o Text("**Design Date:** ")
    \o strftime(datetime_now)
    \o Text("\n")
    \o Block("1873-1875")
    \o Text("### ")
    \o title(replace(content_type, "_", " "))
    \o Text(" Thumbnail Requirements\n")
    \o Block("1877-1920")
    \o Text("### ")
    \o capitalize(style_preference)
    \o Text(" Style Guide\n")
    \o Block("1922-1965")
    \o Text("### ")
    \o title(replace(target_audience, "_", " "))
    \o Text(" Audience Design\n")
    \o Block("1967-2120")

\* ai_streamer_creator_assistant, src lines 2126-2384: the f-string of lines 2133-2382, returned at line 2384.
ai_streamer_creator_assistant(streaming_platform, content_type, experience_level) ==
    Text("\n")
    \o Text("# AI Streamer & Creator Assistant: ")
    \o title(replace(streaming_platform, "_", " "))
    \o Text("\n")
    \o Block("2135-2136")
    \o Text("**Platform:** ")
    \o title(replace(streaming_platform, "_", " "))
    \o Text("\n")
    \o Text("**Content Type:** ")
    \o title(replace(content_type, "_", " "))
    \o Text("\n")
    \o Text("**Experience Level:** ")
    \o capitalize(experience_level)
    \o Text("\n")
    \o Text("**Setup Date:** ")
    \o strftime(datetime_now)
    \o Text("\n")
    \o Block("2141-2143")
    \o Text("### ")
    \o title(replace(streaming_platform, "_", " "))
    \o Text(" Optimization\n")
    \o Block("2145-2181")
    \o Text("### ")
    \o title(replace(content_type, "_", " "))
    \o Text(" Content Guide\n")
    \o Block("2183-2219")
    \o Text("### ")
    \o capitalize(experience_level)
    \o Text(" Streamer Guide\n")
    \o Block("2221-2381")

\* The parameters of each tool as its signature declares them: name and default
\* (None for a parameter that has none).
Signature(tool) ==
    CASE tool = "validate" -> <<>>
      [] tool = "ai_art_style_transfer" ->
        << [name |-> "image_description", default |-> None],
           [name |-> "art_style", default |-> None],
           [name |-> "mood", default |-> Some(<<"v", "i", "b", "r", "a", "n", "t">>)] >>
      [] tool = "ai_voice_cloning_audio" ->
        << [name |-> "voice_type", default |-> None],
           [name |-> "content_type", default |-> Some(<<"v", "o", "i", "c", "e", "_", "o", "v", "e", "r">>)],
           [name |-> "language", default |-> Some(<<"e", "n", "g", "l", "i", "s", "h">>)] >>
      [] tool = "ai_podcast_producer" ->
        << [name |-> "podcast_topic", default |-> None],
           [name |-> "episode_type", default |-> Some(<<"s", "o", "l", "o">>)],
           [name |-> "target_audience", default |-> Some(<<"g", "e", "n", "e", "r", "a", "l">>)] >>
      [] tool = "ai_music_composer" ->
        << [name |-> "music_genre", default |-> None],
           [name |-> "mood", default |-> Some(<<"e", "n", "e", "r", "g", "e", "t", "i", "c">>)],
           [name |-> "duration", default |-> Some(<<"m", "e", "d", "i", "u", "m">>)] >>
      [] tool = "ai_task_automator" ->
        << [name |-> "task_type", default |-> None],
           [name |-> "frequency", default |-> Some(<<"d", "a", "i", "l", "y">>)],
           [name |-> "complexity", default |-> Some(<<"m", "o", "d", "e", "r", "a", "t", "e">>)] >>
      [] tool = "ai_meeting_calendar_assistant" ->
        << [name |-> "meeting_type", default |-> None],
           [name |-> "duration", default |-> Some(<<"m", "e", "d", "i", "u", "m">>)],
           [name |-> "participants", default |-> Some(<<"s", "m", "a", "l", "l">>)] >>
      [] tool = "ai_gaming_tournament_organizer" ->
        << [name |-> "game_type", default |-> None],
           [name |-> "tournament_size", default |-> Some(<<"m", "e", "d", "i", "u", "m">>)],
           [name |-> "format_type", default |-> Some(<<"s", "i", "n", "g", "l", "e", "_", "e", "l", "i", "m", "i", "n", "a", "t", "i", "o", "n">>)] >>
      [] tool = "ai_video_script_generator" ->
        << [name |-> "video_type", default |-> None],
           [name |-> "target_audience", default |-> Some(<<"g", "e", "n", "e", "r", "a", "l">>)],
           [name |-> "video_length", default |-> Some(<<"m", "e", "d", "i", "u", "m">>)] >>
      [] tool = "ai_thumbnail_designer" ->
        << [name |-> "content_type", default |-> None],
           [name |-> "style_preference", default |-> Some(<<"b", "o", "l", "d">>)],
           [name |-> "target_audience", default |-> Some(<<"g", "e", "n", "e", "r", "a", "l">>)] >>
      [] tool = "ai_streamer_creator_assistant" ->
        << [name |-> "streaming_platform", default |-> None],
           [name |-> "content_type", default |-> Some(<<"g", "a", "m", "i", "n", "g">>)],
           [name |-> "experience_level", default |-> Some(<<"b", "e", "g", "i", "n", "n", "e", "r">>)] >>

\* The values the Field description of a parameter advertises (none for free text).
Advertised(tool, name) ==
    CASE tool = "ai_art_style_transfer" /\ name = "image_description" ->
            {}
      [] tool = "ai_art_style_transfer" /\ name = "art_style" ->
            {<<"v", "a", "n", "_", "g", "o", "g", "h">>, <<"p", "i", "c", "a", "s", "s", "o">>, <<"m", "o", "n", "e", "t">>, <<"a", "n", "i", "m", "e">>, <<"s", "k", "e", "t", "c", "h">>, <<"w", "a", "t", "e", "r", "c", "o", "l", "o", "r">>, <<"o", "i", "l", "_", "p", "a", "i", "n", "t", "i", "n", "g">>, <<"d", "i", "g", "i", "t", "a", "l", "_", "a", "r", "t">>}
      [] tool = "ai_art_style_transfer" /\ name = "mood" ->
            {<<"b", "r", "i", "g", "h", "t">>, <<"d", "a", "r", "k">>, <<"v", "i", "b", "r", "a", "n", "t">>, <<"m", "u", "t", "e", "d">>, <<"d", "r", "a", "m", "a", "t", "i", "c">>, <<"p", "e", "a", "c", "e", "f", "u", "l">>}
      [] tool = "ai_voice_cloning_audio" /\ name = "voice_type" ->
            {<<"p", "r", "o", "f", "e", "s", "s", "i", "o", "n", "a", "l">>, <<"c", "a", "s", "u", "a", "l">>, <<"n", "a", "r", "r", "a", "t", "o", "r">>, <<"c", "h", "a", "r", "a", "c", "t", "e", "r">>, <<"c", "e", "l", "e", "b", "r", "i", "t", "y">>}
      [] tool = "ai_voice_cloning_audio" /\ name = "content_type" ->
            {<<"v", "o", "i", "c", "e", "_", "o", "v", "e", "r">>, <<"p", "o", "d", "c", "a", "s", "t">>, <<"a", "u", "d", "i", "o", "b", "o", "o", "k">>, <<"c", "o", "m", "m", "e", "r", "c", "i", "a", "l">>, <<"c", "h", "a", "r", "a", "c", "t", "e", "r", "_", "v", "o", "i", "c", "e">>}
      [] tool = "ai_voice_cloning_audio" /\ name = "language" ->
            {<<"e", "n", "g", "l", "i", "s", "h">>, <<"s", "p", "a", "n", "i", "s", "h">>, <<"f", "r", "e", "n", "c", "h">>, <<"g", "e", "r", "m", "a", "n">>, <<"h", "i", "n", "d", "i">>, <<"c", "h", "i", "n", "e", "s", "e">>}
      [] tool = "ai_podcast_producer" /\ name = "podcast_topic" ->
            {}
      [] tool = "ai_podcast_producer" /\ name = "episode_type" ->
            {<<"i", "n", "t", "e", "r", "v", "i", "e", "w">>, <<"s", "o", "l", "o">>, <<"p", "a", "n", "e", "l">>, <<"s", "t", "o", "r", "y", "t", "e", "l", "l", "i", "n", "g">>, <<"e", "d", "u", "c", "a", "t", "i", "o", "n", "a", "l">>}
      [] tool = "ai_podcast_producer" /\ name = "target_audience" ->
            {<<"b", "e", "g", "i", "n", "n", "e", "r", "s">>, <<"i", "n", "t", "e", "r", "m", "e", "d", "i", "a", "t", "e">>, <<"a", "d", "v", "a", "n", "c", "e", "d">>, <<"g", "e", "n", "e", "r", "a", "l">>}
      [] tool = "ai_music_composer" /\ name = "music_genre" ->
            {<<"p", "o", "p">>, <<"r", "o", "c", "k">>, <<"e", "l", "e", "c", "t", "r", "o", "n", "i", "c">>, <<"j", "a", "z", "z">>, <<"c", "l", "a", "s", "s", "i", "c", "a", "l">>, <<"h", "i", "p", "_", "h", "o", "p">>, <<"c", "o", "u", "n", "t", "r", "y">>, <<"a", "m", "b", "i", "e", "n", "t">>}
      [] tool = "ai_music_composer" /\ name = "mood" ->
            {<<"e", "n", "e", "r", "g", "e", "t", "i", "c">>, <<"c", "a", "l", "m">>, <<"m", "e", "l", "a", "n", "c", "h", "o", "l", "i", "c">>, <<"u", "p", "l", "i", "f", "t", "i", "n", "g">>, <<"d", "r", "a", "m", "a", "t", "i", "c">>, <<"r", "o", "m", "a", "n", "t", "i", "c">>}
      [] tool = "ai_music_composer" /\ name = "duration" ->
            {<<"s", "h", "o", "r", "t">>, <<"m", "e", "d", "i", "u", "m">>, <<"l", "o", "n", "g">>}
      [] tool = "ai_task_automator" /\ name = "task_type" ->
            {<<"e", "m", "a", "i", "l">>, <<"d", "a", "t", "a", "_", "e", "n", "t", "r", "y">>, <<"f", "i", "l", "e", "_", "m", "a", "n", "a", "g", "e", "m", "e", "n", "t">>, <<"s", "o", "c", "i", "a", "l", "_", "m", "e", "d", "i", "a">>, <<"r", "e", "p", "o", "r", "t", "i", "n", "g">>, <<"c", "u", "s", "t", "o", "m", "e", "r", "_", "s", "e", "r", "v", "i", "c", "e">>}
      [] tool = "ai_task_automator" /\ name = "frequency" ->
            {<<"d", "a", "i", "l", "y">>, <<"w", "e", "e", "k", "l", "y">>, <<"m", "o", "n", "t", "h", "l", "y">>, <<"o", "n", "_", "d", "e", "m", "a", "n", "d">>}
      [] tool = "ai_task_automator" /\ name = "complexity" ->
            {<<"s", "i", "m", "p", "l", "e">>, <<"m", "o", "d", "e", "r", "a", "t", "e">>, <<"c", "o", "m", "p", "l", "e", "x">>}
      [] tool = "ai_meeting_calendar_assistant" /\ name = "meeting_type" ->
            {<<"o", "n", "e", "_", "o", "n", "_", "o", "n", "e">>, <<"t", "e", "a", "m">>, <<"c", "l", "i", "e", "n", "t">>, <<"i", "n", "t", "e", "r", "v", "i", "e", "w">>, <<"p", "r", "e", "s", "e", "n", "t", "a", "t", "i", "o", "n">>, <<"b", "r", "a", "i", "n", "s", "t", "o", "r", "m", "i", "n", "g">>}
      [] tool = "ai_meeting_calendar_assistant" /\ name = "duration" ->
            {<<"s", "h", "o", "r", "t">>, <<"m", "e", "d", "i", "u", "m">>, <<"l", "o", "n", "g">>}
      [] tool = "ai_meeting_calendar_assistant" /\ name = "participants" ->
            {<<"s", "m", "a", "l", "l">>, <<"m", "e", "d", "i", "u", "m">>, <<"l", "a", "r", "g", "e">>}
      [] tool = "ai_gaming_tournament_organizer" /\ name = "game_type" ->
            {<<"f", "p", "s">>, <<"m", "o", "b", "a">>, <<"b", "a", "t", "t", "l", "e", "_", "r", "o", "y", "a", "l", "e">>, <<"f", "i", "g", "h", "t", "i", "n", "g">>, <<"c", "a", "r", "d", "_", "g", "a", "m", "e">>, <<"s", "t", "r", "a", "t", "e", "g", "y">>}
      [] tool = "ai_gaming_tournament_organizer" /\ name = "tournament_size" ->
            {<<"s", "m", "a", "l", "l">>, <<"m", "e", "d", "i", "u", "m">>, <<"l", "a", "r", "g", "e">>}
      [] tool = "ai_gaming_tournament_organizer" /\ name = "format_type" ->
            {<<"s", "i", "n", "g", "l", "e", "_", "e", "l", "i", "m", "i", "n", "a", "t", "i", "o", "n">>, <<"d", "o", "u", "b", "l", "e", "_", "e", "l", "i", "m", "i", "n", "a", "t", "i", "o", "n">>, <<"r", "o", "u", "n", "d", "_", "r", "o", "b", "i", "n">>, <<"s", "w", "i", "s", "s", "_", "s", "y", "s", "t", "e", "m">>}
      [] tool = "ai_video_script_generator" /\ name = "video_type" ->
            {<<"y", "o", "u", "t", "u", "b", "e">>, <<"t", "i", "k", "t", "o", "k">>, <<"i", "n", "s", "t", "a", "g", "r", "a", "m">>, <<"c", "o", "m", "m", "e", "r", "c", "i", "a", "l">>, <<"e", "d", "u", "c", "a", "t", "i", "o", "n", "a", "l">>, <<"e", "n", "t", "e", "r", "t", "a", "i", "n", "m", "e", "n", "t">>}
      [] tool = "ai_video_script_generator" /\ name = "target_audience" ->
            {<<"g", "e", "n", "_", "z">>, <<"m", "i", "l", "l", "e", "n", "n", "i", "a", "l", "s">>, <<"p", "r", "o", "f", "e", "s", "s", "i", "o", "n", "a", "l", "s">>, <<"s", "t", "u", "d", "e", "n", "t", "s">>, <<"g", "e", "n", "e", "r", "a", "l">>}
      [] tool = "ai_video_script_generator" /\ name = "video_length" ->
            {<<"s", "h", "o", "r", "t">>, <<"m", "e", "d", "i", "u", "m">>, <<"l", "o", "n", "g">>}
      [] tool = "ai_thumbnail_designer" /\ name = "content_type" ->
            {<<"y", "o", "u", "t", "u", "b", "e">>, <<"t", "i", "k", "t", "o", "k">>, <<"i", "n", "s", "t", "a", "g", "r", "a", "m">>, <<"t", "w", "i", "t", "t", "e", "r">>, <<"l", "i", "n", "k", "e", "d", "i", "n">>, <<"g", "a", "m", "i", "n", "g">>}
      [] tool = "ai_thumbnail_designer" /\ name = "style_preference" ->
            {<<"b", "o", "l", "d">>, <<"m", "i", "n", "i", "m", "a", "l">>, <<"c", "o", "l", "o", "r", "f", "u", "l">>, <<"p", "r", "o", "f", "e", "s", "s", "i", "o", "n", "a", "l">>, <<"t", "r", "e", "n", "d", "y">>, <<"v", "i", "n", "t", "a", "g", "e">>}
      [] tool = "ai_thumbnail_designer" /\ name = "target_audience" ->
            {<<"g", "e", "n", "_", "z">>, <<"m", "i", "l", "l", "e", "n", "n", "i", "a", "l", "s">>, <<"p", "r", "o", "f", "e", "s", "s", "i", "o", "n", "a", "l", "s">>, <<"g", "a", "m", "e", "r", "s">>, <<"g", "e", "n", "e", "r", "a", "l">>}
      [] tool = "ai_streamer_creator_assistant" /\ name = "streaming_platform" ->
            {<<"t", "w", "i", "t", "c", "h">>, <<"y", "o", "u", "t", "u", "b", "e">>, <<"f", "a", "c", "e", "b", "o", "o", "k">>, <<"t", "i", "k", "t", "o", "k">>, <<"i", "n", "s", "t", "a", "g", "r", "a", "m">>}
      [] tool = "ai_streamer_creator_assistant" /\ name = "content_type" ->
            {<<"g", "a", "m", "i", "n", "g">>, <<"j", "u", "s", "t", "_", "c", "h", "a", "t", "t", "i", "n", "g">>, <<"c", "r", "e", "a", "t", "i", "v", "e">>, <<"i", "r", "l">>, <<"e", "d", "u", "c", "a", "t", "i", "o", "n", "a", "l">>}
      [] tool = "ai_streamer_creator_assistant" /\ name = "experience_level" ->
            {<<"b", "e", "g", "i", "n", "n", "e", "r">>, <<"i", "n", "t", "e", "r", "m", "e", "d", "i", "a", "t", "e">>, <<"a", "d", "v", "a", "n", "c", "e", "d">>}

\* RichToolDescription (lines 44-47): three fields, side_effects defaulting to None.
RichToolDescription(description, use_when, side_effects) ==
    [description |-> description, use_when |-> use_when, side_effects |-> side_effects]
ArtStyleTransferDescription ==
    RichToolDescription("Transform photos into different art styles using AI",
                        "When you want to convert photos into different artistic styles like paintings, sketches, or digital art",
                        None)
VoiceCloningDescription ==
    RichToolDescription("Create voice-overs and audio content with AI voice cloning",
                        "When you need professional voice-overs, audio content, or voice cloning for projects",
                        None)
PodcastProducerDescription ==
    RichToolDescription("Generate podcast topics, scripts, and episode ideas",
                        "When you want to create podcast content, plan episodes, or develop podcast strategies",
                        None)
MusicComposerDescription ==
    RichToolDescription("Generate melodies, lyrics, and full songs with AI",
                        "When you need music composition, songwriting, or musical content creation",
                        None)
TaskAutomatorDescription ==
    RichToolDescription("Automate repetitive tasks and create workflows",
                        "When you want to automate daily tasks, create workflows, or streamline processes",
                        None)
MeetingCalendarAssistantDescription ==
    RichToolDescription("Schedule, transcribe, and optimize meetings",
                        "When you need to manage meetings, schedule appointments, or optimize calendar productivity",
                        None)
GamingTournamentOrganizerDescription ==
    RichToolDescription("Plan and manage gaming tournaments",
                        "When you want to organize gaming tournaments, esports events, or competitive gaming competitions",
                        None)
VideoScriptGeneratorDescription ==
    RichToolDescription("Create viral video scripts and storyboards",
                        "When you need to create engaging video content, scripts, or storyboards for social media or marketing",
                        None)
ThumbnailDesignerDescription ==
    RichToolDescription("Generate eye-catching thumbnails and social media graphics",
                        "When you need to create compelling thumbnails, social media posts, or visual graphics",
                        None)
StreamerCreatorAssistantDescription ==
    RichToolDescription("Live streaming tools and audience engagement",
                        "When you want to improve your live streaming, engage with audiences, or grow your streaming channel",
                        None)

\* pydantic model_dump_json: the JSON object of the three fields in declaration
\* order, a None field written as null; the text is a sequence of atoms.
model_dump_json(self) ==
    << "{", "\"description\":", self.description, ",",
       "\"use_when\":", self.use_when, ",",
       "\"side_effects\":", IF self.side_effects = None THEN "null" ELSE Unwrap(self.side_effects), "}" >>

\* Every function registered by a bare decorator, its description a plain sentence.
ToolDescription_bare(tool) ==
    << "Validate the bearer token and return the user's phone number." >>

\* The description each @mcp.tool decorator registers: the JSON dump of the rich
\* description for the ten content tools, the docstring for the bare decorator.
ToolDescription(tool) ==
    CASE tool = "validate" ->
            << "Validate the bearer token and return the user's phone number." >>
      [] tool = "ai_art_style_transfer" ->
            model_dump_json(ArtStyleTransferDescription)
      [] tool = "ai_voice_cloning_audio" ->
            model_dump_json(VoiceCloningDescription)
      [] tool = "ai_podcast_producer" ->
            model_dump_json(PodcastProducerDescription)
      [] tool = "ai_music_composer" ->
            model_dump_json(MusicComposerDescription)
      [] tool = "ai_task_automator" ->
            model_dump_json(TaskAutomatorDescription)
      [] tool = "ai_meeting_calendar_assistant" ->
            model_dump_json(MeetingCalendarAssistantDescription)
      [] tool = "ai_gaming_tournament_organizer" ->
            model_dump_json(GamingTournamentOrganizerDescription)
      [] tool = "ai_video_script_generator" ->
            model_dump_json(VideoScriptGeneratorDescription)
      [] tool = "ai_thumbnail_designer" ->
            model_dump_json(ThumbnailDesignerDescription)
      [] tool = "ai_streamer_creator_assistant" ->
            model_dump_json(StreamerCreatorAssistantDescription)

\* Field(description=...) of each parameter, as one atom of text.
FieldDescription(tool, name) ==
    CASE tool = "ai_art_style_transfer" /\ name = "image_description" ->
            "Description of the image you want to transform"
      [] tool = "ai_art_style_transfer" /\ name = "art_style" ->
            "Art style: 'van_gogh', 'picasso', 'monet', 'anime', 'sketch', 'watercolor', 'oil_painting', 'digital_art'"
      [] tool = "ai_art_style_transfer" /\ name = "mood" ->
            "Mood: 'bright', 'dark', 'vibrant', 'muted', 'dramatic', 'peaceful'"
      [] tool = "ai_voice_cloning_audio" /\ name = "voice_type" ->
            "Type of voice: 'professional', 'casual', 'narrator', 'character', 'celebrity'"
      [] tool = "ai_voice_cloning_audio" /\ name = "content_type" ->
            "Content type: 'voice_over', 'podcast', 'audiobook', 'commercial', 'character_voice'"
      [] tool = "ai_voice_cloning_audio" /\ name = "language" ->
            "Language: 'english', 'spanish', 'french', 'german', 'hindi', 'chinese'"
      [] tool = "ai_podcast_producer" /\ name = "podcast_topic" ->
            "Main topic or theme for your podcast"
      [] tool = "ai_podcast_producer" /\ name = "episode_type" ->
            "Episode type: 'interview', 'solo', 'panel', 'storytelling', 'educational'"
      [] tool = "ai_podcast_producer" /\ name = "target_audience" ->
            "Target audience: 'beginners', 'intermediate', 'advanced', 'general'"
      [] tool = "ai_music_composer" /\ name = "music_genre" ->
            "Music genre: 'pop', 'rock', 'electronic', 'jazz', 'classical', 'hip_hop', 'country', 'ambient'"
      [] tool = "ai_music_composer" /\ name = "mood" ->
            "Mood: 'energetic', 'calm', 'melancholic', 'uplifting', 'dramatic', 'romantic'"
      [] tool = "ai_music_composer" /\ name = "duration" ->
            "Duration: 'short', 'medium', 'long'"
      [] tool = "ai_task_automator" /\ name = "task_type" ->
            "Type of task: 'email', 'data_entry', 'file_management', 'social_media', 'reporting', 'customer_service'"
      [] tool = "ai_task_automator" /\ name = "frequency" ->
            "Frequency: 'daily', 'weekly', 'monthly', 'on_demand'"
      [] tool = "ai_task_automator" /\ name = "complexity" ->
            "Complexity: 'simple', 'moderate', 'complex'"
      [] tool = "ai_meeting_calendar_assistant" /\ name = "meeting_type" ->
            "Meeting type: 'one_on_one', 'team', 'client', 'interview', 'presentation', 'brainstorming'"
      [] tool = "ai_meeting_calendar_assistant" /\ name = "duration" ->
            "Duration: 'short', 'medium', 'long'"
      [] tool = "ai_meeting_calendar_assistant" /\ name = "participants" ->
            "Number of participants: 'small', 'medium', 'large'"
      [] tool = "ai_gaming_tournament_organizer" /\ name = "game_type" ->
            "Game type: 'fps', 'moba', 'battle_royale', 'fighting', 'card_game', 'strategy'"
      [] tool = "ai_gaming_tournament_organizer" /\ name = "tournament_size" ->
            "Tournament size: 'small', 'medium', 'large'"
      [] tool = "ai_gaming_tournament_organizer" /\ name = "format_type" ->
            "Format: 'single_elimination', 'double_elimination', 'round_robin', 'swiss_system'"
      [] tool = "ai_video_script_generator" /\ name = "video_type" ->
            "Video type: 'youtube', 'tiktok', 'instagram', 'commercial', 'educational', 'entertainment'"
      [] tool = "ai_video_script_generator" /\ name = "target_audience" ->
            "Target audience: 'gen_z', 'millennials', 'professionals', 'students', 'general'"
      [] tool = "ai_video_script_generator" /\ name = "video_length" ->
            "Video length: 'short', 'medium', 'long'"
      [] tool = "ai_thumbnail_designer" /\ name = "content_type" ->
            "Content type: 'youtube', 'tiktok', 'instagram', 'twitter', 'linkedin', 'gaming'"
      [] tool = "ai_thumbnail_designer" /\ name = "style_preference" ->
            "Style preference: 'bold', 'minimal', 'colorful', 'professional', 'trendy', 'vintage'"
      [] tool = "ai_thumbnail_designer" /\ name = "target_audience" ->
            "Target audience: 'gen_z', 'millennials', 'professionals', 'gamers', 'general'"
      [] tool = "ai_streamer_creator_assistant" /\ name = "streaming_platform" ->
            "Streaming platform: 'twitch', 'youtube', 'facebook', 'tiktok', 'instagram'"
      [] tool = "ai_streamer_creator_assistant" /\ name = "content_type" ->
            "Content type: 'gaming', 'just_chatting', 'creative', 'irl', 'educational'"
      [] tool = "ai_streamer_creator_assistant" /\ name = "experience_level" ->
            "Experience level: 'beginner', 'intermediate', 'advanced'"

\* The sections of a template headed by a parameter: the parameter, the display
\* form its heading applies and the text that ends the heading line, in template order.
Categories(tool) ==
    CASE tool = "validate" -> << >>
      [] tool = "ai_art_style_transfer" ->
        << [param |-> "art_style", form |-> "title", suffix |-> " Style Characteristics\n"],
           [param |-> "mood", form |-> "capitalize", suffix |-> " Mood Palette\n"] >>
      [] tool = "ai_voice_cloning_audio" ->
        << [param |-> "voice_type", form |-> "capitalize", suffix |-> " Voice Profile\n"],
           [param |-> "content_type", form |-> "title", suffix |-> " Production Guide\n"],
           [param |-> "language", form |-> "capitalize", suffix |-> " Language Optimization\n"] >>
      [] tool = "ai_podcast_producer" ->
        << [param |-> "episode_type", form |-> "capitalize", suffix |-> " Episode Format\n"],
           [param |-> "target_audience", form |-> "capitalize", suffix |-> " Audience Focus\n"] >>
      [] tool = "ai_music_composer" ->
        << [param |-> "music_genre", form |-> "title", suffix |-> " Characteristics\n"],
           [param |-> "mood", form |-> "capitalize", suffix |-> " Mood Elements\n"],
           [param |-> "duration", form |-> "capitalize", suffix |-> " Duration Structure\n"] >>
      [] tool = "ai_task_automator" ->
        << [param |-> "task_type", form |-> "title", suffix |-> " Automation Guide\n"],
           [param |-> "frequency", form |-> "title", suffix |-> " Workflow Structure\n"],
           [param |-> "complexity", form |-> "capitalize", suffix |-> " Complexity Setup\n"] >>
      [] tool = "ai_meeting_calendar_assistant" ->
        << [param |-> "meeting_type", form |-> "title", suffix |-> " Meeting Guide\n"],
           [param |-> "duration", form |-> "capitalize", suffix |-> " Meeting Structure\n"],
           [param |-> "participants", form |-> "capitalize", suffix |-> " Group Dynamics\n"] >>
      [] tool = "ai_gaming_tournament_organizer" ->
        << [param |-> "game_type", form |-> "title", suffix |-> " Tournament Structure\n"],
           [param |-> "tournament_size", form |-> "capitalize", suffix |-> " Tournament Structure\n"],
           [param |-> "format_type", form |-> "title", suffix |-> " Format Guide\n"] >>
      [] tool = "ai_video_script_generator" ->
        << [param |-> "video_type", form |-> "title", suffix |-> " Video Format\n"],
           [param |-> "video_length", form |-> "capitalize", suffix |-> " Video Script Template\n"],
           [param |-> "target_audience", form |-> "title", suffix |-> " Audience Strategy\n"] >>
      [] tool = "ai_thumbnail_designer" ->
        << [param |-> "content_type", form |-> "title", suffix |-> " Thumbnail Requirements\n"],
           [param |-> "style_preference", form |-> "capitalize", suffix |-> " Style Guide\n"],
           [param |-> "target_audience", form |-> "title", suffix |-> " Audience Design\n"] >>
      [] tool = "ai_streamer_creator_assistant" ->
        << [param |-> "streaming_platform", form |-> "title", suffix |-> " Optimization\n"],
           [param |-> "content_type", form |-> "title", suffix |-> " Content Guide\n"],
           [param |-> "experience_level", form |-> "capitalize", suffix |-> " Streamer Guide\n"] >>

\* The bold fragment headings a block of template lines holds at its start, in
\* order, each with the advertised value it is written for.
Fragments(lines) ==
    CASE lines = "144-201" ->
        << [key |-> <<"v", "a", "n", "_", "g", "o", "g", "h">>, heading |-> "**Van Gogh Style:**"],
           [key |-> <<"p", "i", "c", "a", "s", "s", "o">>, heading |-> "**Picasso Style:**"],
           [key |-> <<"m", "o", "n", "e", "t">>, heading |-> "**Monet Style:**"],
           [key |-> <<"a", "n", "i", "m", "e">>, heading |-> "**Anime Style:**"],
           [key |-> <<"s", "k", "e", "t", "c", "h">>, heading |-> "**Sketch Style:**"],
           [key |-> <<"w", "a", "t", "e", "r", "c", "o", "l", "o", "r">>, heading |-> "**Watercolor Style:**"],
           [key |-> <<"o", "i", "l", "_", "p", "a", "i", "n", "t", "i", "n", "g">>, heading |-> "**Oil Painting Style:**"],
           [key |-> <<"d", "i", "g", "i", "t", "a", "l", "_", "a", "r", "t">>, heading |-> "**Digital Art Style:**"] >>
      [] lines = "203-238" ->
        << [key |-> <<"b", "r", "i", "g", "h", "t">>, heading |-> "**Bright Mood:**"],
           [key |-> <<"d", "a", "r", "k">>, heading |-> "**Dark Mood:**"],
           [key |-> <<"v", "i", "b", "r", "a", "n", "t">>, heading |-> "**Vibrant Mood:**"],
           [key |-> <<"m", "u", "t", "e", "d">>, heading |-> "**Muted Mood:**"],
           [key |-> <<"d", "r", "a", "m", "a", "t", "i", "c">>, heading |-> "**Dramatic Mood:**"],
           [key |-> <<"p", "e", "a", "c", "e", "f", "u", "l">>, heading |-> "**Peaceful Mood:**"] >>
      [] lines = "297-333" ->
        << [key |-> <<"p", "r", "o", "f", "e", "s", "s", "i", "o", "n", "a", "l">>, heading |-> "**Professional Voice:**"],
           [key |-> <<"c", "a", "s", "u", "a", "l">>, heading |-> "**Casual Voice:**"],
           [key |-> <<"n", "a", "r", "r", "a", "t", "o", "r">>, heading |-> "**Narrator Voice:**"],
           [key |-> <<"c", "h", "a", "r", "a", "c", "t", "e", "r">>, heading |-> "**Character Voice:**"],
           [key |-> <<"c", "e", "l", "e", "b", "r", "i", "t", "y">>, heading |-> "**Celebrity Voice:**"] >>
      [] lines = "335-371" ->
        << [key |-> <<"v", "o", "i", "c", "e", "_", "o", "v", "e", "r">>, heading |-> "**Voice-Over:**"],
           [key |-> <<"p", "o", "d", "c", "a", "s", "t">>, heading |-> "**Podcast:**"],
           [key |-> <<"a", "u", "d", "i", "o", "b", "o", "o", "k">>, heading |-> "**Audiobook:**"],
           [key |-> <<"c", "o", "m", "m", "e", "r", "c", "i", "a", "l">>, heading |-> "**Commercial:**"],
           [key |-> <<"c", "h", "a", "r", "a", "c", "t", "e", "r", "_", "v", "o", "i", "c", "e">>, heading |-> "**Character Voice:**"] >>
      [] lines = "373-458" ->
        << [key |-> <<"e", "n", "g", "l", "i", "s", "h">>, heading |-> "**English:**"],
           [key |-> <<"s", "p", "a", "n", "i", "s", "h">>, heading |-> "**Spanish:**"],
           [key |-> <<"f", "r", "e", "n", "c", "h">>, heading |-> "**French:**"],
           [key |-> <<"g", "e", "r", "m", "a", "n">>, heading |-> "**German:**"],
           [key |-> <<"h", "i", "n", "d", "i">>, heading |-> "**Hindi:**"],
           [key |-> <<"c", "h", "i", "n", "e", "s", "e">>, heading |-> "**Chinese:**"] >>
      [] lines = "483-515" ->
        << [key |-> <<"i", "n", "t", "e", "r", "v", "i", "e", "w">>, heading |-> "**Interview Episode:**"],
           [key |-> <<"s", "o", "l", "o">>, heading |-> "**Solo Episode:**"],
           [key |-> <<"p", "a", "n", "e", "l">>, heading |-> "**Panel Episode:**"],
           [key |-> <<"s", "t", "o", "r", "y", "t", "e", "l", "l", "i", "n", "g">>, heading |-> "**Storytelling Episode:**"],
           [key |-> <<"e", "d", "u", "c", "a", "t", "i", "o", "n", "a", "l">>, heading |-> "**Educational Episode:**"] >>
      [] lines = "593-643" ->
        << [key |-> <<"b", "e", "g", "i", "n", "n", "e", "r", "s">>, heading |-> "**Beginners:**"],
           [key |-> <<"i", "n", "t", "e", "r", "m", "e", "d", "i", "a", "t", "e">>, heading |-> "**Intermediate:**"],
           [key |-> <<"a", "d", "v", "a", "n", "c", "e", "d">>, heading |-> "**Advanced:**"],
           [key |-> <<"g", "e", "n", "e", "r", "a", "l">>, heading |-> "**General:**"] >>
      [] lines = "668-725" ->
        << [key |-> <<"p", "o", "p">>, heading |-> "**Pop Music:**"],
           [key |-> <<"r", "o", "c", "k">>, heading |-> "**Rock Music:**"],
           [key |-> <<"e", "l", "e", "c", "t", "r", "o", "n", "i", "c">>, heading |-> "**Electronic Music:**"],
           [key |-> <<"j", "a", "z", "z">>, heading |-> "**Jazz Music:**"],
           [key |-> <<"c", "l", "a", "s", "s", "i", "c", "a", "l">>, heading |-> "**Classical Music:**"],
           [key |-> <<"h", "i", "p", "_", "h", "o", "p">>, heading |-> "**Hip Hop Music:**"],
           [key |-> <<"c", "o", "u", "n", "t", "r", "y">>, heading |-> "**Country Music:**"],
           [key |-> <<"a", "m", "b", "i", "e", "n", "t">>, heading |-> "**Ambient Music:**"] >>
      [] lines = "727-786" ->
        << [key |-> <<"e", "n", "e", "r", "g", "e", "t", "i", "c">>, heading |-> "**Energetic:**"],
           [key |-> <<"c", "a", "l", "m">>, heading |-> "**Calm:**"],
           [key |-> <<"m", "e", "l", "a", "n", "c", "h", "o", "l", "i", "c">>, heading |-> "**Melancholic:**"],
           [key |-> <<"u", "p", "l", "i", "f", "t", "i", "n", "g">>, heading |-> "**Uplifting:**"],
           [key |-> <<"d", "r", "a", "m", "a", "t", "i", "c">>, heading |-> "**Dramatic:**"],
           [key |-> <<"r", "o", "m", "a", "n", "t", "i", "c">>, heading |-> "**Romantic:**"] >>
      [] lines = "825-880" ->
        << [key |-> <<"s", "h", "o", "r", "t">>, heading |-> "**Short (2-3 minutes):**"],
           [key |-> <<"m", "e", "d", "i", "u", "m">>, heading |-> "**Medium (3-5 minutes):**"],
           [key |-> <<"l", "o", "n", "g">>, heading |-> "**Long (5-8 minutes):**"] >>
      [] lines = "905-948" ->
        << [key |-> <<"e", "m", "a", "i", "l">>, heading |-> "**Email Automation:**"],
           [key |-> <<"d", "a", "t", "a", "_", "e", "n", "t", "r", "y">>, heading |-> "**Data Entry Automation:**"],
           [key |-> <<"f", "i", "l", "e", "_", "m", "a", "n", "a", "g", "e", "m", "e", "n", "t">>, heading |-> "**File Management Automation:**"],
           [key |-> <<"s", "o", "c", "i", "a", "l", "_", "m", "e", "d", "i", "a">>, heading |-> "**Social Media Automation:**"],
           [key |-> <<"r", "e", "p", "o", "r", "t", "i", "n", "g">>, heading |-> "**Reporting Automation:**"],
           [key |-> <<"c", "u", "s", "t", "o", "m", "e", "r", "_", "s", "e", "r", "v", "i", "c", "e">>, heading |-> "**Customer Service Automation:**"] >>
      [] lines = "950-975" ->
        << [key |-> <<"d", "a", "i", "l", "y">>, heading |-> "**Daily Automation:**"],
           [key |-> <<"w", "e", "e", "k", "l", "y">>, heading |-> "**Weekly Automation:**"],
           [key |-> <<"m", "o", "n", "t", "h", "l", "y">>, heading |-> "**Monthly Automation:**"],
           [key |-> <<"o", "n", "_", "d", "e", "m", "a", "n", "d">>, heading |-> "**On-Demand Automation:**"] >>
      [] lines = "977-1087" ->
        << [key |-> <<"s", "i", "m", "p", "l", "e">>, heading |-> "**Simple Automation:**"],
           [key |-> <<"m", "o", "d", "e", "r", "a", "t", "e">>, heading |-> "**Moderate Automation:**"],
           [key |-> <<"c", "o", "m", "p", "l", "e", "x">>, heading |-> "**Complex Automation:**"] >>
      [] lines = "1112-1155" ->
        << [key |-> <<"o", "n", "e", "_", "o", "n", "_", "o", "n", "e">>, heading |-> "**One-on-One Meetings:**"],
           [key |-> <<"t", "e", "a", "m">>, heading |-> "**Team Meetings:**"],
           [key |-> <<"c", "l", "i", "e", "n", "t">>, heading |-> "**Client Meetings:**"],
           [key |-> <<"i", "n", "t", "e", "r", "v", "i", "e", "w">>, heading |-> "**Interview Meetings:**"],
           [key |-> <<"p", "r", "e", "s", "e", "n", "t", "a", "t", "i", "o", "n">>, heading |-> "**Presentation Meetings:**"],
           [key |-> <<"b", "r", "a", "i", "n", "s", "t", "o", "r", "m", "i", "n", "g">>, heading |-> "**Brainstorming Meetings:**"] >>
      [] lines = "1157-1179" ->
        << [key |-> <<"s", "h", "o", "r", "t">>, heading |-> "**Short Meetings (15-30 minutes):**"],
           [key |-> <<"m", "e", "d", "i", "u", "m">>, heading |-> "**Medium Meetings (30-60 minutes):**"],
           [key |-> <<"l", "o", "n", "g">>, heading |-> "**Long Meetings (60+ minutes):**"] >>
      [] lines = "1181-1315" ->
        << [key |-> <<"s", "m", "a", "l", "l">>, heading |-> "**Small Groups (2-5 people):**"],
           [key |-> <<"m", "e", "d", "i", "u", "m">>, heading |-> "**Medium Groups (6-15 people):**"],
           [key |-> <<"l", "a", "r", "g", "e">>, heading |-> "**Large Groups (16+ people):**"] >>
      [] lines = "1340-1383" ->
        << [key |-> <<"f", "p", "s">>, heading |-> "**FPS (First-Person Shooter):**"],
           [key |-> <<"m", "o", "b", "a">>, heading |-> "**MOBA (Multiplayer Online Battle Arena):**"],
           [key |-> <<"b", "a", "t", "t", "l", "e", "_", "r", "o", "y", "a", "l", "e">>, heading |-> "**Battle Royale:**"],
           [key |-> <<"f", "i", "g", "h", "t", "i", "n", "g">>, heading |-> "**Fighting Games:**"],
           [key |-> <<"c", "a", "r", "d", "_", "g", "a", "m", "e">>, heading |-> "**Card Games:**"],
           [key |-> <<"s", "t", "r", "a", "t", "e", "g", "y">>, heading |-> "**Strategy Games:**"] >>
      [] lines = "1385-1407" ->
        << [key |-> <<"s", "m", "a", "l", "l">>, heading |-> "**Small Tournament (8-16 players):**"],
           [key |-> <<"m", "e", "d", "i", "u", "m">>, heading |-> "**Medium Tournament (32-64 players):**"],
           [key |-> <<"l", "a", "r", "g", "e">>, heading |-> "**Large Tournament (128+ players):**"] >>
      [] lines = "1409-1580" ->
        << [key |-> <<"s", "i", "n", "g", "l", "e", "_", "e", "l", "i", "m", "i", "n", "a", "t", "i", "o", "n">>, heading |-> "**Single Elimination:**"],
           [key |-> <<"d", "o", "u", "b", "l", "e", "_", "e", "l", "i", "m", "i", "n", "a", "t", "i", "o", "n">>, heading |-> "**Double Elimination:**"],
           [key |-> <<"r", "o", "u", "n", "d", "_", "r", "o", "b", "i", "n">>, heading |-> "**Round Robin:**"],
           [key |-> <<"s", "w", "i", "s", "s", "_", "s", "y", "s", "t", "e", "m">>, heading |-> "**Swiss System:**"] >>
      [] lines = "1605-1654" ->
        << [key |-> <<"y", "o", "u", "t", "u", "b", "e">>, heading |-> "**YouTube Videos:**"],
           [key |-> <<"t", "i", "k", "t", "o", "k">>, heading |-> "**TikTok Videos:**"],
           [key |-> <<"i", "n", "s", "t", "a", "g", "r", "a", "m">>, heading |-> "**Instagram Videos:**"],
           [key |-> <<"c", "o", "m", "m", "e", "r", "c", "i", "a", "l">>, heading |-> "**Commercial Videos:**"],
           [key |-> <<"e", "d", "u", "c", "a", "t", "i", "o", "n", "a", "l">>, heading |-> "**Educational Videos:**"],
           [key |-> <<"e", "n", "t", "e", "r", "t", "a", "i", "n", "m", "e", "n", "t">>, heading |-> "**Entertainment Videos:**"] >>
      [] lines = "1656-1702" ->
        << [key |-> <<"s", "h", "o", "r", "t">>, heading |-> "**Short Video (15-60 seconds):**"],
           [key |-> <<"m", "e", "d", "i", "u", "m">>, heading |-> "**Medium Video (1-5 minutes):**"],
           [key |-> <<"l", "o", "n", "g">>, heading |-> "**Long Video (5+ minutes):**"] >>
      [] lines = "1704-1852" ->
        << [key |-> <<"g", "e", "n", "_", "z">>, heading |-> "**Gen Z (13-26 years old):**"],
           [key |-> <<"m", "i", "l", "l", "e", "n", "n", "i", "a", "l", "s">>, heading |-> "**Millennials (27-42 years old):**"],
           [key |-> <<"p", "r", "o", "f", "e", "s", "s", "i", "o", "n", "a", "l", "s">>, heading |-> "**Professionals (25+ years old):**"],
           [key |-> <<"s", "t", "u", "d", "e", "n", "t", "s">>, heading |-> "**Students (16-24 years old):**"],
           [key |-> <<"g", "e", "n", "e", "r", "a", "l">>, heading |-> "**General Audience:**"] >>
      [] lines = "1877-1920" ->
        << [key |-> <<"y", "o", "u", "t", "u", "b", "e">>, heading |-> "**YouTube Thumbnails:**"],
           [key |-> <<"t", "i", "k", "t", "o", "k">>, heading |-> "**TikTok Thumbnails:**"],
           [key |-> <<"i", "n", "s", "t", "a", "g", "r", "a", "m">>, heading |-> "**Instagram Thumbnails:**"],
           [key |-> <<"t", "w", "i", "t", "t", "e", "r">>, heading |-> "**Twitter Thumbnails:**"],
           [key |-> <<"l", "i", "n", "k", "e", "d", "i", "n">>, heading |-> "**LinkedIn Thumbnails:**"],
           [key |-> <<"g", "a", "m", "i", "n", "g">>, heading |-> "**Gaming Thumbnails:**"] >>
      [] lines = "1922-1965" ->
        << [key |-> <<"b", "o", "l", "d">>, heading |-> "**Bold Style:**"],
           [key |-> <<"m", "i", "n", "i", "m", "a", "l">>, heading |-> "**Minimal Style:**"],
           [key |-> <<"c", "o", "l", "o", "r", "f", "u", "l">>, heading |-> "**Colorful Style:**"],
           [key |-> <<"p", "r", "o", "f", "e", "s", "s", "i", "o", "n", "a", "l">>, heading |-> "**Professional Style:**"],
           [key |-> <<"t", "r", "e", "n", "d", "y">>, heading |-> "**Trendy Style:**"],
           [key |-> <<"v", "i", "n", "t", "a", "g", "e">>, heading |-> "**Vintage Style:**"] >>
      [] lines = "1967-2120" ->
        << [key |-> <<"g", "e", "n", "_", "z">>, heading |-> "**Gen Z (13-26 years old):**"],
           [key |-> <<"m", "i", "l", "l", "e", "n", "n", "i", "a", "l", "s">>, heading |-> "**Millennials (27-42 years old):**"],
           [key |-> <<"p", "r", "o", "f", "e", "s", "s", "i", "o", "n", "a", "l", "s">>, heading |-> "**Professionals (25+ years old):**"],
           [key |-> <<"g", "a", "m", "e", "r", "s">>, heading |-> "**Gamers (All ages):**"],
           [key |-> <<"g", "e", "n", "e", "r", "a", "l">>, heading |-> "**General Audience:**"] >>
      [] lines = "2145-2181" ->
        << [key |-> <<"t", "w", "i", "t", "c", "h">>, heading |-> "**Twitch Streaming:**"],
           [key |-> <<"y", "o", "u", "t", "u", "b", "e">>, heading |-> "**YouTube Live:**"],
           [key |-> <<"f", "a", "c", "e", "b", "o", "o", "k">>, heading |-> "**Facebook Gaming:**"],
           [key |-> <<"t", "i", "k", "t", "o", "k">>, heading |-> "**TikTok Live:**"],
           [key |-> <<"i", "n", "s", "t", "a", "g", "r", "a", "m">>, heading |-> "**Instagram Live:**"] >>
      [] lines = "2183-2219" ->
        << [key |-> <<"g", "a", "m", "i", "n", "g">>, heading |-> "**Gaming Streams:**"],
           [key |-> <<"j", "u", "s", "t", "_", "c", "h", "a", "t", "t", "i", "n", "g">>, heading |-> "**Just Chatting Streams:**"],
           [key |-> <<"c", "r", "e", "a", "t", "i", "v", "e">>, heading |-> "**Creative Streams:**"],
           [key |-> <<"i", "r", "l">>, heading |-> "**IRL (In Real Life) Streams:**"],
           [key |-> <<"e", "d", "u", "c", "a", "t", "i", "o", "n", "a", "l">>, heading |-> "**Educational Streams:**"] >>
      [] lines = "2221-2381" ->
        << [key |-> <<"b", "e", "g", "i", "n", "n", "e", "r">>, heading |-> "**Beginner Streamers:**"],
           [key |-> <<"i", "n", "t", "e", "r", "m", "e", "d", "i", "a", "t", "e">>, heading |-> "**Intermediate Streamers:**"],
           [key |-> <<"a", "d", "v", "a", "n", "c", "e", "d">>, heading |-> "**Advanced Streamers:**"] >>
      [] OTHER -> << >>

\* ToolSpec that advertises every default in its capitalized form.
ToolSpec_capitalized(tool) ==
    [name |-> tool,
     description |-> ToolDescription(tool),
     parameters |-> [i \in DOMAIN Signature(tool) |->
                        [name |-> Signature(tool)[i].name,
                         description |-> FieldDescription(tool, Signature(tool)[i].name),
                         required |-> Signature(tool)[i].default = None,
                         default |-> IF Signature(tool)[i].default = None
                                     THEN None
                                     ELSE Some(capitalize(Unwrap(Signature(tool)[i].default)))]]]

\* What mcp keeps and advertises for a registered function: its name, the
\* description of its decorator, and its parameters as the signature declares them.
ToolSpec(tool) ==
    [name |-> tool,
     description |-> ToolDescription(tool),
     parameters |-> [i \in DOMAIN Signature(tool) |->
                        [name |-> Signature(tool)[i].name,
                         description |-> FieldDescription(tool, Signature(tool)[i].name),
                         required |-> Signature(tool)[i].default = None,
                         default |-> Signature(tool)[i].default]]]

\* Registration order: the @mcp.tool decorators run top to bottom (lines 117-2126).
ToolOrder ==
    << "validate", "ai_art_style_transfer", "ai_voice_cloning_audio",
       "ai_podcast_producer", "ai_music_composer", "ai_task_automator",
       "ai_meeting_calendar_assistant", "ai_gaming_tournament_organizer",
       "ai_video_script_generator", "ai_thumbnail_designer",
       "ai_streamer_creator_assistant" >>

Range(s) == {s[i] : i \in DOMAIN s}
ParamNames(tool) == {p.name : p \in Range(Signature(tool))}
Required(tool) == {p.name : p \in {q \in Range(Signature(tool)) : q.default = None}}
Param(tool, name) == CHOOSE p \in Range(Signature(tool)) : p.name = name

\* Argument binding that drops braces from what the caller supplied.
BindArguments_sanitizing(tool, args) ==
    [n \in ParamNames(tool) |->
        IF n \in DOMAIN args
        THEN SelectSeq(args[n], LAMBDA c : c \notin {"{", "}"})
        ELSE Unwrap(Param(tool, n).default)]

\* Argument binding that passes "" for an omitted argument.
BindArguments_empty(tool, args) ==
    [n \in ParamNames(tool) |-> IF n \in DOMAIN args THEN args[n] ELSE <<>>]

\* Python's argument binding: a supplied argument is passed through unchanged,
\* an omitted one takes the default of the signature.
BindArguments(tool, args) ==
    [n \in ParamNames(tool) |->
        IF n \in DOMAIN args THEN args[n] ELSE Unwrap(Param(tool, n).default)]

\* The call of the registered coroutine with bound arguments b.
RunHandler(tool, b) ==
    CASE tool = "validate" -> Unwrap(validate)
      [] tool = "ai_art_style_transfer" ->
            ai_art_style_transfer(b["image_description"], b["art_style"], b["mood"])
      [] tool = "ai_voice_cloning_audio" ->
            ai_voice_cloning_audio(b["voice_type"], b["content_type"], b["language"])
      [] tool = "ai_podcast_producer" ->
            ai_podcast_producer(b["podcast_topic"], b["episode_type"], b["target_audience"])
      [] tool = "ai_music_composer" ->
            ai_music_composer(b["music_genre"], b["mood"], b["duration"])
      [] tool = "ai_task_automator" ->
            ai_task_automator(b["task_type"], b["frequency"], b["complexity"])
      [] tool = "ai_meeting_calendar_assistant" ->
            ai_meeting_calendar_assistant(b["meeting_type"], b["duration"], b["participants"])
      [] tool = "ai_gaming_tournament_organizer" ->
            ai_gaming_tournament_organizer(b["game_type"], b["tournament_size"], b["format_type"])
      [] tool = "ai_video_script_generator" ->
            ai_video_script_generator(b["video_type"], b["target_audience"], b["video_length"])
      [] tool = "ai_thumbnail_designer" ->
            ai_thumbnail_designer(b["content_type"], b["style_preference"], b["target_audience"])
      [] tool = "ai_streamer_creator_assistant" ->
            ai_streamer_creator_assistant(b["streaming_platform"], b["content_type"], b["experience_level"])

\* An exception raised while a handler evaluates its f-string travels in its
\* result as one of these atoms; mcp turns it into an error response.
Exceptions == {"IndexError", "KeyError", "ValueError", "AttributeError", "TypeError"}
Raised(out) == \E i \in DOMAIN out : out[i] \in Exceptions

\* CallResult with every parameter treated as required.
CallResult_all_required(tool, args) ==
    IF tool \notin Range(registry)
    THEN [status |-> "error", error |-> "UnknownTool", body |-> <<>>, handler |-> ""]
    ELSE IF DOMAIN args # ParamNames(tool)
    THEN [status |-> "error", error |-> "MissingArgument", body |-> <<>>, handler |-> ""]
    ELSE [status |-> "ok", error |-> "",
          body |-> RunHandler(tool, BindArguments(tool, args)), handler |-> tool]

\* CallResult that validates enumerations: a supplied value outside the advertised
\* ones is refused before the handler runs.
CallResult_strict(tool, args) ==
    IF tool \notin Range(registry)
    THEN [status |-> "error", error |-> "UnknownTool", body |-> <<>>, handler |-> ""]
    ELSE IF ~(Required(tool) \subseteq DOMAIN args)
    THEN [status |-> "error", error |-> "MissingArgument", body |-> <<>>, handler |-> ""]
    ELSE IF \E n \in DOMAIN args : Advertised(tool, n) # {} /\ args[n] \notin Advertised(tool, n)
    THEN [status |-> "error", error |-> "InvalidArgument", body |-> <<>>, handler |-> ""]
    ELSE [status |-> "ok", error |-> "",
          body |-> RunHandler(tool, BindArguments(tool, args)), handler |-> tool]

\* CallResult of a dispatcher that selects: every block of fragments in the
\* handler's text is cut down to the lines of one fragment.
CallResult_selecting(tool, args) ==
    IF tool \notin Range(registry)
    THEN [status |-> "error", error |-> "UnknownTool", body |-> <<>>, handler |-> ""]
    ELSE IF ~(Required(tool) \subseteq DOMAIN args)
    THEN [status |-> "error", error |-> "MissingArgument", body |-> <<>>, handler |-> ""]
    ELSE LET out == RunHandler(tool, BindArguments(tool, args)) IN
         [status |-> "ok", error |-> "",
          body |-> [i \in DOMAIN out |->
                       IF Fragments(out[i]) # <<>> THEN "selected fragment" ELSE out[i]],
          handler |-> tool]

\* CallResult of a template that degrades: when a supplied value is not an
\* advertised one, the blocks of fragments are left out of the document.
CallResult_degrading(tool, args) ==
    IF tool \notin Range(registry)
    THEN [status |-> "error", error |-> "UnknownTool", body |-> <<>>, handler |-> ""]
    ELSE IF ~(Required(tool) \subseteq DOMAIN args)
    THEN [status |-> "error", error |-> "MissingArgument", body |-> <<>>, handler |-> ""]
    ELSE LET out == RunHandler(tool, BindArguments(tool, args)) IN
         [status |-> "ok", error |-> "",
          body |-> IF \E n \in DOMAIN args :
                        Advertised(tool, n) # {} /\ args[n] \notin Advertised(tool, n)
                   THEN SelectSeq(out, LAMBDA a : Fragments(a) = <<>>)
                   ELSE out,
          handler |-> tool]

\* CallResult of handlers that print what the caller typed: the document ends
\* with the supplied arguments as they came in.
CallResult_echoing(tool, args) ==
    IF tool \notin Range(registry)
    THEN [status |-> "error", error |-> "UnknownTool", body |-> <<>>, handler |-> ""]
    ELSE IF ~(Required(tool) \subseteq DOMAIN args)
    THEN [status |-> "error", error |-> "MissingArgument", body |-> <<>>, handler |-> ""]
    ELSE LET b == BindArguments(tool, args) IN
         [status |-> "ok", error |-> "",
          body |-> RunHandler(tool, b)
                   \o (IF Signature(tool) = <<>> THEN <<>>
                       ELSE b[Signature(tool)[2].name] \o <<"\n">> \o b[Signature(tool)[3].name]),
          handler |-> tool]

\* CallResult of handlers that sign their documents with the configured identifier.
CallResult_signing(tool, args) ==
    IF tool \notin Range(registry)
    THEN [status |-> "error", error |-> "UnknownTool", body |-> <<>>, handler |-> ""]
    ELSE IF ~(Required(tool) \subseteq DOMAIN args)
    THEN [status |-> "error", error |-> "MissingArgument", body |-> <<>>, handler |-> ""]
    ELSE [status |-> "ok", error |-> "",
          body |-> IF tool = "validate"
                   THEN RunHandler(tool, BindArguments(tool, args))
                   ELSE RunHandler(tool, BindArguments(tool, args)) \o Unwrap(MY_NUMBER),
          handler |-> tool]

\* CallResult with an unregistered name falling through to the first tool.
CallResult_fallback(tool, args) ==
    IF tool \notin Range(registry)
    THEN [status |-> "ok", error |-> "", body |-> RunHandler(registry[1], <<>>),
          handler |-> registry[1]]
    ELSE IF ~(Required(tool) \subseteq DOMAIN args)
    THEN [status |-> "error", error |-> "MissingArgument", body |-> <<>>, handler |-> ""]
    ELSE [status |-> "ok", error |-> "",
          body |-> RunHandler(tool, BindArguments(tool, args)), handler |-> tool]

\* What mcp answers to a call of `tool` with `args`: a name it never registered
\* is an error, a call that leaves out a parameter without default is an error,
\* anything else runs the handler and returns its text (or reports what it raised).
CallResult(tool, args) ==
    IF tool \notin Range(registry)
    THEN [status |-> "error", error |-> "UnknownTool", body |-> <<>>, handler |-> ""]
    ELSE IF ~(Required(tool) \subseteq DOMAIN args)
    THEN [status |-> "error", error |-> "MissingArgument", body |-> <<>>, handler |-> ""]
    ELSE LET out == RunHandler(tool, BindArguments(tool, args)) IN
         IF Raised(out)
         THEN [status |-> "error", error |-> "ToolError", body |-> <<>>, handler |-> tool]
         ELSE [status |-> "ok", error |-> "", body |-> out, handler |-> tool]

\* load_access_token with the comparison weakened to a prefix test.
load_access_token_startswith(self, token) ==
    IF Len(token) <= Len(self.token) /\ token = SubSeq(self.token, 1, Len(token))
    THEN Some([token |-> token, client_id |-> "puch-client",
               scopes |-> <<"*">>, expires_at |-> None])
    ELSE None

\* load_access_token that locks out after a denial: once the latest request was
\* answered 401, the next token is refused whatever it is.
load_access_token_lockout(self, token) ==
    IF last # None /\ Unwrap(last).resp.status = "401"
    THEN None
    ELSE IF token = self.token
    THEN Some([token |-> token, client_id |-> "puch-client",
               scopes |-> <<"*">>, expires_at |-> None])
    ELSE None

\* load_access_token with a session: the grant of the latest request, if it
\* got one, is handed to the next request whatever token it presents.
load_access_token_cached(self, token) ==
    IF last # None /\ Unwrap(last).grant # None
    THEN Unwrap(last).grant
    ELSE IF token = self.token
    THEN Some([token |-> token, client_id |-> "puch-client",
               scopes |-> <<"*">>, expires_at |-> None])
    ELSE None

\* load_access_token comparing without regard to case.
load_access_token_casefold(self, token) ==
    IF [i \in 1..Len(token) |-> tolower(token[i])]
         = [i \in 1..Len(self.token) |-> tolower(self.token[i])]
    THEN Some([token |-> token, client_id |-> "puch-client",
               scopes |-> <<"*">>, expires_at |-> None])
    ELSE None

\* SimpleBearerAuthProvider.load_access_token, src lines 33-41.
load_access_token(self, token) ==
    IF token = self.token
    THEN Some([token |-> token, client_id |-> "puch-client",
               scopes |-> <<"*">>, expires_at |-> None])
    ELSE None

\* ------------------------------------------------------- inputs of a run
Prefix(s, n) == SubSeq(s, 1, IF n < Len(s) THEN n ELSE Len(s))

SecretSample == <<"a", "b">>
NumberSample == <<"+", "9", "1">>
TokenSamples == { <<"a", "b", "c", "d", "e">>, <<"A", "B", "c", "d", "e">> }
ArgSamples   == { <<"a", "_", "B", "{", "c", "}", "d", "_", "e">> }

EnvValues(sample) == {None, Some(<<>>), Some(sample)}
Tokens  == {Prefix(t, n) : t \in TokenSamples, n \in 0..MaxTokLen}
ArgVals == {Prefix(a, n) : a \in ArgSamples, n \in {0, MaxArgLen}}
UnknownTools == {"ai_image_generator", "Validate"}
ToolNamesCalled == Range(ToolOrder) \cup UnknownTools
\* A realistic call of the art tool: a description and an advertised style, the
\* mood left to its default.
ExampleDescription ==
    <<"a", " ", "m", "o", "u", "n", "t", "a", "i", "n", " ", "l", "a", "k", "e", " ", "a", "t", " ", "d", "a", "w", "n">>
ExampleStyle == <<"v", "a", "n", "_", "g", "o", "g", "h">>
ExampleArgs ==
    [n \in {"image_description", "art_style"} |->
        IF n = "image_description" THEN ExampleDescription ELSE ExampleStyle]
ArgMaps(tool) ==
    IF tool \in Range(ToolOrder)
    THEN UNION {[S -> ArgVals] : S \in SUBSET ParamNames(tool)}
         \cup (IF tool = "ai_art_style_transfer" THEN {ExampleArgs} ELSE {})
    ELSE {<<>>}
StartInstants ==
    { [year |-> 2025, month |-> 12, day |-> 31, hour |-> 22],
      [year |-> 2026, month |-> 2,  day |-> 9,  hour |-> 23] }

NoResponse == [status |-> "", error |-> "", body |-> <<>>, handler |-> ""]

\* ------------------------------------------------------------- startup
Init ==
    /\ environ \in [AUTH_TOKEN : EnvValues(SecretSample), MY_NUMBER : EnvValues(NumberSample)]
    /\ pc = "load"
    /\ TOKEN = None
    /\ MY_NUMBER = None
    /\ auth = None
    /\ registry = <<>>
    /\ listening = None
    /\ clock \in StartInstants
    /\ ticks = 0
    /\ req = None
    /\ rpc = "idle"
    /\ grant = None
    /\ resp = NoResponse
    /\ kept = None
    /\ last = None
    /\ listing = None
    /\ inflight = <<>>

\* Lines 20-21: TOKEN = os.environ.get("AUTH_TOKEN"); MY_NUMBER = os.environ.get("MY_NUMBER").
LoadEnv ==
    /\ pc = "load"
    /\ TOKEN' = environ.AUTH_TOKEN
    /\ MY_NUMBER' = environ.MY_NUMBER
    /\ pc' = "assert_token"
    /\ UNCHANGED <<environ, auth, registry, listening, clock, ticks, req, rpc, grant, resp, kept, last, listing, inflight>>

\* Line 23 as a truthiness check (assert TOKEN): the empty string fails it too.
AssertToken_truthy ==
    /\ pc = "assert_token"
    /\ pc' = IF TOKEN # None /\ TOKEN # Some(<<>>) THEN "assert_number" ELSE "failed"
    /\ UNCHANGED <<environ, TOKEN, MY_NUMBER, auth, registry, listening, clock, ticks,
                   req, rpc, grant, resp, kept, last, listing, inflight>>

\* Line 23: assert TOKEN is not None.
AssertToken ==
    /\ pc = "assert_token"
    /\ pc' = IF TOKEN # None THEN "assert_number" ELSE "failed"
    /\ UNCHANGED <<environ, TOKEN, MY_NUMBER, auth, registry, listening, clock, ticks,
                   req, rpc, grant, resp, kept, last, listing, inflight>>

\* Line 24 without effect: the second assert never fails.
AssertNumber_skipped ==
    /\ pc = "assert_number"
    /\ pc' = "construct"
    /\ UNCHANGED <<environ, TOKEN, MY_NUMBER, auth, registry, listening, clock, ticks,
                   req, rpc, grant, resp, kept, last, listing, inflight>>

\* Line 24: assert MY_NUMBER is not None.
AssertNumber ==
    /\ pc = "assert_number"
    /\ pc' = IF MY_NUMBER # None THEN "construct" ELSE "failed"
    /\ UNCHANGED <<environ, TOKEN, MY_NUMBER, auth, registry, listening, clock, ticks,
                   req, rpc, grant, resp, kept, last, listing, inflight>>

\* Lines 111-114 with 28-31: mcp = FastMCP(..., auth=SimpleBearerAuthProvider(TOKEN)).
ConstructServer ==
    /\ pc = "construct"
    /\ auth' = Some([token |-> Unwrap(TOKEN)])
    /\ pc' = "register"
    /\ UNCHANGED <<environ, TOKEN, MY_NUMBER, registry, listening, clock, ticks,
                   req, rpc, grant, resp, kept, last, listing, inflight>>

\* One @mcp.tool decorator: the next function of the file is added to mcp.
RegisterTool ==
    /\ pc = "register"
    /\ Len(registry) < Len(ToolOrder)
    /\ registry' = Append(registry, ToolOrder[Len(registry) + 1])
    /\ UNCHANGED <<environ, pc, TOKEN, MY_NUMBER, auth, listening, clock, ticks,
                   req, rpc, grant, resp, kept, last, listing, inflight>>

\* main() started while decorators are still to run.
Main_early ==
    /\ pc = "register"
    /\ Len(registry) >= 1
    /\ listening' = Some([host |-> "0.0.0.0", port |-> PORT])
    /\ pc' = "serving"
    /\ UNCHANGED <<environ, TOKEN, MY_NUMBER, auth, registry, clock, ticks,
                   req, rpc, grant, resp, kept, last, listing, inflight>>

\* Lines 2387-2393: asyncio.run(main()) binds the port and serves.
Main ==
    /\ pc = "register"
    /\ Len(registry) = Len(ToolOrder)
    /\ listening' = Some([host |-> "0.0.0.0", port |-> PORT])
    /\ pc' = "serving"
    /\ UNCHANGED <<environ, TOKEN, MY_NUMBER, auth, registry, clock, ticks,
                   req, rpc, grant, resp, kept, last, listing, inflight>>

\* ------------------------------------------------------------- serving
\* The wall clock moves on, whatever the server is doing.
Tick ==
    /\ pc = "serving"
    /\ ticks < MaxTicks
    /\ clock' = NextHour(clock)
    /\ ticks' = ticks + 1
    /\ UNCHANGED <<environ, pc, TOKEN, MY_NUMBER, auth, registry, listening,
                   req, rpc, grant, resp, kept, last, listing, inflight>>

\* A tools/call request arrives with a bearer token; the caller has done with
\* the answer to its latest tools/list.
Receive ==
    /\ pc = "serving"
    /\ rpc = "idle"
    /\ \E token \in Tokens, tool \in ToolNamesCalled :
          \E args \in ArgMaps(tool) :
             req' = Some([token |-> token, tool |-> tool, args |-> args])
    /\ rpc' = "auth"
    /\ listing' = None
    /\ UNCHANGED <<environ, pc, TOKEN, MY_NUMBER, auth, registry, listening, clock, ticks,
                   grant, resp, kept, last, inflight>>

\* A tools/list request is served: behind the same auth gate, mcp answers with
\* the specification of every registered tool, in registration order.
ListTools ==
    /\ pc = "serving"
    /\ rpc = "idle"
    /\ \E token \in Tokens :
          listing' = IF load_access_token(Unwrap(auth), token) = None
                     THEN Some([status |-> "401", tools |-> <<>>])
                     ELSE Some([status |-> "ok",
                                tools |-> [i \in DOMAIN registry |-> ToolSpec(registry[i])]])
    /\ UNCHANGED <<environ, pc, TOKEN, MY_NUMBER, auth, registry, listening, clock, ticks,
                   req, rpc, grant, resp, kept, last, inflight>>

\* The auth gate installed by auth=...: the provider's load_access_token decides;
\* None is answered 401 and the request goes no further.
Authenticate ==
    /\ rpc = "auth"
    /\ LET g == load_access_token(Unwrap(auth), Unwrap(req).token) IN
        /\ grant' = g
        /\ IF g = None
           THEN /\ resp' = [status |-> "401", error |-> "invalid_token",
                            body |-> <<>>, handler |-> ""]
                /\ rpc' = "done"
           ELSE /\ resp' = resp
                /\ rpc' = "call"
    /\ UNCHANGED <<environ, pc, TOKEN, MY_NUMBER, auth, registry, listening, clock, ticks,
                   req, kept, last, listing, inflight>>

\* A dispatch whose handler rebinds the module's TOKEN.
CallTool_rebinding ==
    /\ rpc = "call"
    /\ resp' = CallResult(Unwrap(req).tool, Unwrap(req).args)
    /\ rpc' = "done"
    /\ TOKEN' = Some(<<>>)
    /\ UNCHANGED <<environ, pc, MY_NUMBER, auth, registry, listening, clock, ticks,
                   req, grant, kept, last, listing, inflight>>

\* mcp dispatches the authorized call.  A handler has no await in its body, so
\* it runs from its first line to its return in one step of the event loop.
CallTool ==
    /\ rpc = "call"
    /\ resp' = CallResult(Unwrap(req).tool, Unwrap(req).args)
    /\ rpc' = "done"
    /\ UNCHANGED <<environ, pc, TOKEN, MY_NUMBER, auth, registry, listening, clock, ticks,
                   req, grant, kept, last, listing, inflight>>

\* The response leaves; nothing of the request stays behind.
Deliver ==
    /\ rpc = "done"
    /\ req' = None
    /\ grant' = None
    /\ resp' = NoResponse
    /\ rpc' = "idle"
    /\ UNCHANGED <<environ, pc, TOKEN, MY_NUMBER, auth, registry, listening, clock, ticks,
                   kept, last, listing, inflight>>

Next ==
    \/ LoadEnv
    \/ AssertToken
    \/ AssertNumber
    \/ ConstructServer
    \/ RegisterTool
    \/ Main
    \/ Tick
    \/ Receive
    \/ ListTools
    \/ Authenticate
    \/ CallTool
    \/ Deliver

Spec == Init /\ [][Next]_vars

\* ------------------------------------------------- a caller comparing responses
\* The server as Main leaves it: both settings present, the provider built,
\* the eleven tools registered, the port bound.
InitServing ==
    /\ environ = [AUTH_TOKEN |-> Some(SecretSample), MY_NUMBER |-> Some(NumberSample)]
    /\ pc = "serving"
    /\ TOKEN = environ.AUTH_TOKEN
    /\ MY_NUMBER = environ.MY_NUMBER
    /\ auth = Some([token |-> Unwrap(TOKEN)])
    /\ registry = ToolOrder
    /\ listening = Some([host |-> "0.0.0.0", port |-> PORT])
    /\ clock = [year |-> 2025, month |-> 12, day |-> 31, hour |-> 22]
    /\ ticks = 0
    /\ req = None
    /\ rpc = "idle"
    /\ grant = None
    /\ resp = NoResponse
    /\ kept = None
    /\ last = None
    /\ listing = None
    /\ inflight = <<>>

\* Arguments of a compared call: every required parameter is supplied, every
\* other parameter is omitted, set to its default, or set to another string.
\* (Every content tool declares three parameters, validate none.)
ComparedValues(p) ==
    IF p.default = None
    THEN {Some(a) : a \in ArgVals \ {<<>>}}
    ELSE {None, p.default} \cup {Some(a) : a \in ArgVals \ {<<>>}}
ComparedArgs(tool) ==
    LET sg == Signature(tool) IN
    IF sg = <<>> THEN {<<>>}
    ELSE {[n \in {sg[i].name : i \in {j \in 1..3 : c[j] # None}} |->
              Unwrap(c[CHOOSE i \in 1..3 : sg[i].name = n])] :
            c \in ComparedValues(sg[1]) \X ComparedValues(sg[2]) \X ComparedValues(sg[3])}

\* An authorized call is received, authenticated, dispatched and answered, and
\* the caller looks at the answer.  Once the caller has kept a response it
\* looks only at answers of the same tool; calls of other tools are served in
\* between and, assigning no variable, leave the state as it is.
Invoke ==
    /\ pc = "serving"
    /\ rpc = "idle"
    /\ \E tool \in Range(ToolOrder) :
          /\ kept # None => tool = Unwrap(kept).tool
          /\ \E args \in ComparedArgs(tool) :
                /\ load_access_token(Unwrap(auth), Unwrap(TOKEN)) # None
                /\ last' = Some([tool |-> tool, args |-> args, at |-> clock,
                                 resp |-> CallResult(tool, args)])
    /\ UNCHANGED <<environ, pc, TOKEN, MY_NUMBER, auth, registry, listening, clock, ticks,
                   req, rpc, grant, resp, kept, listing, inflight>>

\* The caller keeps the response it last looked at, to compare later ones with it.
Keep ==
    /\ last # None
    /\ kept = None
    /\ kept' = last
    /\ UNCHANGED <<environ, pc, TOKEN, MY_NUMBER, auth, registry, listening, clock, ticks,
                   req, rpc, grant, resp, last, listing, inflight>>

NextPair ==
    \/ Tick
    \/ Invoke
    \/ Keep

SpecPair == InitServing /\ [][NextPair]_vars

\* ------------------------------------------------- a session of requests
\* One caller sends request after request, with right and wrong tokens, to
\* registered and unregistered names; `last` holds the latest request with its
\* answer, the number of failed requests directly before it (up to MaxFailures)
\* and whether the request before it was granted.
MaxFailures == 2

SessionCalls ==
    { [tool |-> "validate", args |-> <<>>],
      [tool |-> "ai_art_style_transfer", args |-> ExampleArgs],
      [tool |-> "ai_music_composer", args |-> [n \in {"music_genre"} |-> Prefix(ExampleStyle, 3)]],
      [tool |-> "Validate", args |-> <<>>],
      [tool |-> "ai_image_generator", args |-> ExampleArgs] }

\* A tools/call served end to end: the auth gate decides on the presented token,
\* a denied request is answered 401, a granted one is dispatched.
Attempt ==
    /\ pc = "serving"
    /\ rpc = "idle"
    /\ \E token \in Tokens, call \in SessionCalls :
          LET g == load_access_token(Unwrap(auth), token)
              r == IF g = None
                   THEN [status |-> "401", error |-> "invalid_token",
                         body |-> <<>>, handler |-> ""]
                   ELSE CallResult(call.tool, call.args)
          IN  last' = Some([token |-> token, tool |-> call.tool, args |-> call.args,
                            at |-> clock, grant |-> g, resp |-> r,
                            failures |-> IF last = None \/ Unwrap(last).resp.status = "ok"
                                         THEN 0
                                         ELSE IF Unwrap(last).failures < MaxFailures
                                         THEN Unwrap(last).failures + 1
                                         ELSE MaxFailures,
                            after_grant |-> last # None /\ Unwrap(last).grant # None])
    /\ UNCHANGED <<environ, pc, TOKEN, MY_NUMBER, auth, registry, listening, clock, ticks,
                   req, rpc, grant, resp, kept, listing, inflight>>

\* The caller keeps an answer it got before any request of the session failed.
KeepFirst ==
    /\ last # None
    /\ kept = None
    /\ Unwrap(last).failures = 0
    /\ Unwrap(last).resp.status = "ok"
    /\ kept' = last
    /\ UNCHANGED <<environ, pc, TOKEN, MY_NUMBER, auth, registry, listening, clock, ticks,
                   req, rpc, grant, resp, last, listing, inflight>>

NextSession ==
    \/ Tick
    \/ Attempt
    \/ KeepFirst

SpecSession == InitServing /\ [][NextSession]_vars

\* ------------------------------------------------- concurrent invocations
\* The transport serves up to MaxInFlight authorized invocations at a time and
\* may switch between them at any point: before the arguments are bound, between
\* binding and the evaluation of the f-string, and before the result is sent.
\* (The handlers hold no await, so the event loop itself only switches between
\* whole handlers; threads would switch anywhere.)  Each record of `inflight`
\* is one invocation: its call, its position, the frame of its handler (the
\* parameters as local variables), its result, and whether an invocation had
\* been cancelled when it was taken on.
MaxInFlight == 2

ConcurrentCalls ==
    { [tool |-> "validate", args |-> <<>>],
      [tool |-> "ai_art_style_transfer", args |-> ExampleArgs],
      [tool |-> "ai_art_style_transfer",
       args |-> [n \in {"image_description", "art_style", "mood"} |->
                   IF n = "mood" THEN <<>> ELSE Prefix(ExampleDescription, 3)]],
      [tool |-> "ai_image_generator", args |-> ExampleArgs] }

\* What is left in `inflight` of an invocation that was sent or cancelled: its
\* place, and which of the two happened.
Gone(phase) ==
    [tool |-> "", args |-> <<>>, phase |-> phase, frame |-> None, resp |-> NoResponse,
     after_cancel |-> FALSE]

\* The local variables of every running handler, kept in one place per tool:
\* a handler reads what the latest call of its tool has bound.
FrameOf_shared(i) ==
    LET same == {j \in DOMAIN inflight :
                    inflight[j].tool = inflight[i].tool /\ inflight[j].frame # None}
    IN  inflight[CHOOSE j \in same : \A k \in same : k <= j].frame

\* The frame a running handler reads its parameters from: the one of its own call.
FrameOf(i) == inflight[i].frame

\* An authorized tools/call is taken on while others are being served.
Accept ==
    /\ pc = "serving"
    /\ \E call \in ConcurrentCalls :
          LET fresh == [tool |-> call.tool, args |-> call.args, phase |-> "bind",
                        frame |-> None, resp |-> NoResponse,
                        after_cancel |-> \E j \in DOMAIN inflight :
                                            inflight[j].phase = "cancelled"]
          IN  \/ /\ Len(inflight) < MaxInFlight
                 /\ inflight' = Append(inflight, fresh)
              \/ \E i \in DOMAIN inflight :
                    /\ inflight[i].phase \in {"returned", "cancelled"}
                    /\ inflight' = [inflight EXCEPT ![i] = fresh]
    /\ UNCHANGED <<environ, pc, TOKEN, MY_NUMBER, auth, registry, listening, clock, ticks,
                   req, rpc, grant, resp, kept, last, listing>>

\* mcp looks the name up and binds the arguments to the handler's parameters;
\* an unregistered name or a missing argument ends the invocation with an error.
Bind ==
    /\ \E i \in DOMAIN inflight :
          /\ inflight[i].phase = "bind"
          /\ LET tool == inflight[i].tool
                 args == inflight[i].args
             IN  IF tool \in Range(registry) /\ Required(tool) \subseteq DOMAIN args
                 THEN inflight' = [inflight EXCEPT ![i].phase = "render",
                                                   ![i].frame = Some(BindArguments(tool, args))]
                 ELSE inflight' = [inflight EXCEPT ![i].phase = "return",
                                                   ![i].resp = CallResult(tool, args)]
    /\ UNCHANGED <<environ, pc, TOKEN, MY_NUMBER, auth, registry, listening, clock, ticks,
                   req, rpc, grant, resp, kept, last, listing>>

\* The body of the handler: the f-string is evaluated over the handler's frame
\* and the clock, and returned.
Render ==
    /\ \E i \in DOMAIN inflight :
          /\ inflight[i].phase = "render"
          /\ LET out == RunHandler(inflight[i].tool, Unwrap(FrameOf(i))) IN
             inflight' = [inflight EXCEPT
                            ![i].phase = "return",
                            ![i].frame = None,
                            ![i].resp = IF Raised(out)
                                        THEN [status |-> "error", error |-> "ToolError",
                                              body |-> <<>>, handler |-> inflight[i].tool]
                                        ELSE [status |-> "ok", error |-> "",
                                              body |-> out, handler |-> inflight[i].tool]]
    /\ UNCHANGED <<environ, pc, TOKEN, MY_NUMBER, auth, registry, listening, clock, ticks,
                   req, rpc, grant, resp, kept, last, listing>>

\* The result of an invocation is sent to its caller.
Return ==
    /\ \E i \in DOMAIN inflight :
          /\ inflight[i].phase = "return"
          /\ inflight' = [inflight EXCEPT ![i] = Gone("returned")]
    /\ UNCHANGED <<environ, pc, TOKEN, MY_NUMBER, auth, registry, listening, clock, ticks,
                   req, rpc, grant, resp, kept, last, listing>>

\* A cancellation that also takes the cancelled invocation's tool off the registry.
Cancel_unregistering ==
    /\ \E i \in DOMAIN inflight :
          /\ inflight[i].phase \in {"bind", "render", "return"}
          /\ inflight' = [inflight EXCEPT ![i] = Gone("cancelled")]
          /\ registry' = SelectSeq(registry, LAMBDA t : t # inflight[i].tool)
    /\ UNCHANGED <<environ, pc, TOKEN, MY_NUMBER, auth, listening, clock, ticks,
                   req, rpc, grant, resp, kept, last, listing>>

\* The transport cancels an invocation, wherever it stands: the task is dropped
\* with its frame and its result, if it had one; the handlers hold no try,
\* finally or context manager that would run on the way out.
Cancel ==
    /\ \E i \in DOMAIN inflight :
          /\ inflight[i].phase \in {"bind", "render", "return"}
          /\ inflight' = [inflight EXCEPT ![i] = Gone("cancelled")]
    /\ UNCHANGED <<environ, pc, TOKEN, MY_NUMBER, auth, registry, listening, clock, ticks,
                   req, rpc, grant, resp, kept, last, listing>>

NextConcurrent ==
    \/ Tick
    \/ Accept
    \/ Bind
    \/ Render
    \/ Return
    \/ Cancel

SpecConcurrent == InitServing /\ [][NextConcurrent]_vars

\* ------------------------------------------------- spellings of a value
\* One caller calls the art tool and the podcast tool with the advertised
\* values spelled in several ways: as advertised, with spaces for underscores,
\* in upper case; it keeps one answer and compares later answers with it.
Spellings(v) ==
    {v, replace(v, "_", " "), [i \in DOMAIN v |-> toupper(v[i])]}

SpelledValues(tool, name) ==
    CASE tool = "ai_art_style_transfer" /\ name = "image_description" ->
            {Some(ExampleDescription), Some(Prefix(ExampleDescription, 3))}
      [] tool = "ai_art_style_transfer" /\ name = "art_style" ->
            {Some(s) : s \in Spellings(ExampleStyle)}
      [] tool = "ai_art_style_transfer" /\ name = "mood" ->
            {None, Some([i \in 1..7 |-> toupper(<<"v", "i", "b", "r", "a", "n", "t">>[i])])}
      [] tool = "ai_podcast_producer" /\ name = "podcast_topic" ->
            {Some(ExampleDescription), Some(Prefix(ExampleDescription, 3))}
      [] tool = "ai_podcast_producer" /\ name = "episode_type" ->
            {None, Some([i \in 1..9 |-> toupper(<<"i", "n", "t", "e", "r", "v", "i", "e", "w">>[i])])}
      [] tool = "ai_podcast_producer" /\ name = "target_audience" ->
            {None}

SpelledArgs(tool) ==
    LET sg == Signature(tool) IN
    {[n \in {sg[i].name : i \in {j \in 1..3 : c[j] # None}} |->
          Unwrap(c[CHOOSE i \in 1..3 : sg[i].name = n])] :
        c \in SpelledValues(tool, sg[1].name) \X SpelledValues(tool, sg[2].name)
                \X SpelledValues(tool, sg[3].name)}

\* An authorized call of one of the two tools is served end to end, and the
\* caller looks at the answer.
InvokeSpelled ==
    /\ pc = "serving"
    /\ rpc = "idle"
    /\ \E tool \in {"ai_art_style_transfer", "ai_podcast_producer"} :
          /\ kept # None => tool = Unwrap(kept).tool
          /\ \E args \in SpelledArgs(tool) :
                /\ load_access_token(Unwrap(auth), Unwrap(TOKEN)) # None
                /\ last' = Some([tool |-> tool, args |-> args, at |-> clock,
                                 resp |-> CallResult(tool, args)])
    /\ UNCHANGED <<environ, pc, TOKEN, MY_NUMBER, auth, registry, listening, clock, ticks,
                   req, rpc, grant, resp, kept, listing, inflight>>

NextSpelled ==
    \/ Tick
    \/ InvokeSpelled
    \/ Keep

SpecSpelled == InitServing /\ [][NextSpelled]_vars

\* ------------------------------------------------- runs under other settings
\* The process is stopped and started again under another environment, and a
\* caller who holds the secret of each run compares the answers of one run
\* with those of another.  `last` holds a call, its answer, and the settings
\* of the run that answered it.
Environments ==
    [AUTH_TOKEN : EnvValues(SecretSample) \ {None}, MY_NUMBER : EnvValues(NumberSample) \ {None}]

RunCalls ==
    { [tool |-> "validate", args |-> <<>>],
      [tool |-> "ai_art_style_transfer", args |-> ExampleArgs],
      [tool |-> "ai_podcast_producer",
       args |-> [n \in {"podcast_topic"} |-> Prefix(ExampleDescription, 3)]] }

\* Lines 17-114 and 2387-2393 once more: the module is loaded under another
\* environment, passes both asserts, builds the provider, registers the tools
\* and serves.
Restart ==
    /\ pc = "serving"
    /\ rpc = "idle"
    /\ \E env \in Environments \ {environ} :
          /\ environ' = env
          /\ TOKEN' = env.AUTH_TOKEN
          /\ MY_NUMBER' = env.MY_NUMBER
          /\ auth' = Some([token |-> Unwrap(env.AUTH_TOKEN)])
    /\ registry' = ToolOrder
    /\ listening' = Some([host |-> "0.0.0.0", port |-> PORT])
    /\ UNCHANGED <<pc, clock, ticks, req, rpc, grant, resp, kept, last, listing, inflight>>

\* A tools/call that presents a token the run accepts is served end to end,
\* and the caller looks at the answer.
InvokeRun ==
    /\ pc = "serving"
    /\ rpc = "idle"
    /\ \E token \in Tokens, call \in RunCalls :
          /\ load_access_token(Unwrap(auth), token) # None
          /\ last' = Some([tool |-> call.tool, args |-> call.args, at |-> clock,
                           resp |-> CallResult(call.tool, call.args),
                           token |-> token, secret |-> Unwrap(TOKEN),
                           number |-> Unwrap(MY_NUMBER)])
    /\ UNCHANGED <<environ, pc, TOKEN, MY_NUMBER, auth, registry, listening, clock, ticks,
                   req, rpc, grant, resp, kept, listing, inflight>>

NextRuns ==
    \/ Tick
    \/ Restart
    \/ InvokeRun
    \/ Keep

SpecRuns == InitServing /\ [][NextRuns]_vars

\* ===================================================================
\* Claims
\* ===================================================================
ContentTools == Range(ToolOrder) \ {"validate"}
ProgramState == <<environ, pc, TOKEN, MY_NUMBER, auth, registry, listening>>
Authenticated == rpc \in {"call", "done"}
Presented == Unwrap(req).token
Secret == environ.AUTH_TOKEN

\* C1: load_access_token(t) returns a grant for t with scopes exactly ["*"] and
\* no expiry when t equals the configured secret, and None for every other t
\* (prefixes, superstrings and case variants of the secret included).
C1_LoadAccessToken ==
    Authenticated =>
        IF Secret = Some(Presented)
        THEN /\ grant # None
             /\ Unwrap(grant).token = Presented
             /\ Unwrap(grant).scopes = <<"*">>
             /\ Unwrap(grant).expires_at = None
        ELSE grant = None

\* C1 witness: the secret "ab" was presented and a grant was returned.
C1_Witness ==
    /\ rpc = "call"
    /\ Presented = SecretSample
    /\ Secret = Some(SecretSample)
    /\ grant # None

\* C2: while a request whose token does not match the configured secret is in
\* flight, no step runs a handler for it, answers it with anything but the 401,
\* or changes the program's state.
C2_DeniedRunsNothing ==
    [][(req # None /\ Secret # Some(Presented)) =>
          /\ ProgramState' = ProgramState
          /\ rpc' # "call"
          /\ resp'.handler = ""
          /\ resp'.body = <<>>
          /\ resp'.status \in {"", "401"}]_vars

\* C2 witness: validate was called with a proper prefix of the secret and was
\* answered 401.
C2_Witness ==
    /\ rpc = "done"
    /\ Secret = Some(SecretSample)
    /\ Presented = Prefix(SecretSample, 1)
    /\ Unwrap(req).tool = "validate"
    /\ resp.status = "401"

\* C3: an authorized call of validate is always answered, with exactly the
\* MY_NUMBER of the environment, at whatever point of the run it is made.
C3_ValidateReturnsNumber ==
    (rpc = "done" /\ grant # None /\ Unwrap(req).tool = "validate") =>
        /\ resp.status = "ok"
        /\ resp.body = Unwrap(environ.MY_NUMBER)

\* C3 witness: validate answered "+91" after the clock had moved on.
C3_Witness ==
    /\ rpc = "done"
    /\ Unwrap(req).tool = "validate"
    /\ resp.status = "ok"
    /\ resp.body = NumberSample
    /\ ticks > 0

\* C4 as stated: every authorized call of a registered tool, whatever
\* arguments it carries or omits, returns a non-empty text.
C4_Original ==
    (rpc = "done" /\ grant # None /\ Unwrap(req).tool \in Range(ToolOrder)) =>
        /\ resp.status = "ok"
        /\ resp.body # <<>>

\* The parameters the catalog marks as required: image_description and
\* art_style of the art tool, the first parameter of every other content tool.
RequiredParameters(tool) ==
    CASE tool = "validate" -> {}
      [] tool = "ai_art_style_transfer" -> {"image_description", "art_style"}
      [] tool = "ai_voice_cloning_audio" -> {"voice_type"}
      [] tool = "ai_podcast_producer" -> {"podcast_topic"}
      [] tool = "ai_music_composer" -> {"music_genre"}
      [] tool = "ai_task_automator" -> {"task_type"}
      [] tool = "ai_meeting_calendar_assistant" -> {"meeting_type"}
      [] tool = "ai_gaming_tournament_organizer" -> {"game_type"}
      [] tool = "ai_video_script_generator" -> {"video_type"}
      [] tool = "ai_thumbnail_designer" -> {"content_type"}
      [] tool = "ai_streamer_creator_assistant" -> {"streaming_platform"}

\* C4 (amended): an authorized call of a registered tool that supplies the
\* tool's required parameters, and omits any subset of the others, never raises
\* and returns a text; the text is non-empty for the ten content tools and is
\* the configured identifier for validate; a call that leaves out a required
\* parameter is answered with an error and runs no handler.
C4_SuppliedRequired ==
    (rpc = "done" /\ grant # None /\ Unwrap(req).tool \in Range(ToolOrder)) =>
        LET tool == Unwrap(req).tool
            args == Unwrap(req).args
        IN  IF RequiredParameters(tool) \subseteq DOMAIN args
            THEN /\ resp.status = "ok"
                 /\ tool \in ContentTools => resp.body # <<>>
                 /\ tool = "validate" => resp.body = Unwrap(environ.MY_NUMBER)
            ELSE /\ resp.status = "error"
                 /\ resp.handler = ""

\* C4 witness: the music tool was called with its genre alone and answered
\* with a document.
C4_Witness ==
    /\ rpc = "done"
    /\ Unwrap(req).tool = "ai_music_composer"
    /\ DOMAIN Unwrap(req).args = {"music_genre"}
    /\ resp.status = "ok"
    /\ resp.body # <<>>

\* C5: a handler called with a string for every one of its parameters, be it
\* empty, outside the advertised values, or holding underscores and braces,
\* raises nothing; every content tool returns a non-empty document.
C5_AllSuppliedNeverFails ==
    (rpc = "done" /\ grant # None /\ Unwrap(req).tool \in Range(ToolOrder)
       /\ DOMAIN Unwrap(req).args = ParamNames(Unwrap(req).tool)) =>
        /\ resp.status = "ok"
        /\ resp.handler = Unwrap(req).tool
        /\ ~Raised(resp.body)
        /\ Unwrap(req).tool \in ContentTools => resp.body # <<>>

\* C5 witness: the art tool answered a call whose three arguments were given,
\* one of them empty and one holding an underscore and braces.
C5_Witness ==
    /\ rpc = "done"
    /\ Unwrap(req).tool = "ai_art_style_transfer"
    /\ DOMAIN Unwrap(req).args = {"image_description", "art_style", "mood"}
    /\ Unwrap(req).args["mood"] = <<>>
    /\ \E i \in DOMAIN Unwrap(req).args["art_style"] : Unwrap(req).args["art_style"][i] = "{"
    /\ \E i \in DOMAIN Unwrap(req).args["art_style"] : Unwrap(req).args["art_style"][i] = "_"
    /\ resp.status = "ok"

\* C6: an authorized call of a name that was never registered is answered
\* with the UnknownTool error, runs no handler, and leaves the server serving.
C6_UnknownTool ==
    (rpc = "done" /\ grant # None /\ Unwrap(req).tool \notin Range(ToolOrder)) =>
        /\ resp.status = "error"
        /\ resp.error = "UnknownTool"
        /\ resp.handler = ""
        /\ resp.body = <<>>
        /\ pc = "serving"
        /\ listening # None

\* C6 witness: "Validate" (not the registered "validate") was called with the
\* right token and answered UnknownTool.
C6_Witness ==
    /\ rpc = "done"
    /\ grant # None
    /\ Unwrap(req).tool = "Validate"
    /\ resp.error = "UnknownTool"

\* C7: when AUTH_TOKEN or MY_NUMBER is absent, the provider is never
\* constructed, no tool is registered, the port is never bound and no request
\* is ever received.
C7_FailFast ==
    (environ.AUTH_TOKEN = None \/ environ.MY_NUMBER = None) =>
        /\ auth = None
        /\ registry = <<>>
        /\ listening = None
        /\ req = None
        /\ rpc = "idle"
        /\ pc \in {"load", "assert_token", "assert_number", "failed"}

\* C7 witness: AUTH_TOKEN is set, MY_NUMBER is not, and the process has failed
\* at the second assert.
C7_Witness ==
    /\ pc = "failed"
    /\ environ.AUTH_TOKEN # None
    /\ environ.MY_NUMBER = None

\* The defaults the tool catalog documents for the optional parameters.
DocumentedDefaults(tool) ==
    CASE tool = "validate" -> <<>>
      [] tool = "ai_art_style_transfer" ->
            [mood |-> <<"v", "i", "b", "r", "a", "n", "t">>]
      [] tool = "ai_voice_cloning_audio" ->
            [content_type |-> <<"v", "o", "i", "c", "e", "_", "o", "v", "e", "r">>,
             language |-> <<"e", "n", "g", "l", "i", "s", "h">>]
      [] tool = "ai_podcast_producer" ->
            [episode_type |-> <<"s", "o", "l", "o">>,
             target_audience |-> <<"g", "e", "n", "e", "r", "a", "l">>]
      [] tool = "ai_music_composer" ->
            [mood |-> <<"e", "n", "e", "r", "g", "e", "t", "i", "c">>,
             duration |-> <<"m", "e", "d", "i", "u", "m">>]
      [] tool = "ai_task_automator" ->
            [frequency |-> <<"d", "a", "i", "l", "y">>,
             complexity |-> <<"m", "o", "d", "e", "r", "a", "t", "e">>]
      [] tool = "ai_meeting_calendar_assistant" ->
            [duration |-> <<"m", "e", "d", "i", "u", "m">>,
             participants |-> <<"s", "m", "a", "l", "l">>]
      [] tool = "ai_gaming_tournament_organizer" ->
            [tournament_size |-> <<"m", "e", "d", "i", "u", "m">>,
             format_type |-> <<"s", "i", "n", "g", "l", "e", "_", "e", "l", "i", "m",
                               "i", "n", "a", "t", "i", "o", "n">>]
      [] tool = "ai_video_script_generator" ->
            [target_audience |-> <<"g", "e", "n", "e", "r", "a", "l">>,
             video_length |-> <<"m", "e", "d", "i", "u", "m">>]
      [] tool = "ai_thumbnail_designer" ->
            [style_preference |-> <<"b", "o", "l", "d">>,
             target_audience |-> <<"g", "e", "n", "e", "r", "a", "l">>]
      [] tool = "ai_streamer_creator_assistant" ->
            [content_type |-> <<"g", "a", "m", "i", "n", "g">>,
             experience_level |-> <<"b", "e", "g", "i", "n", "n", "e", "r">>]

\* args with every omitted optional parameter set to its documented default.
WithDocumentedDefaults(tool, args) ==
    LET d == DocumentedDefaults(tool) IN
    [n \in DOMAIN args \cup DOMAIN d |-> IF n \in DOMAIN args THEN args[n] ELSE d[n]]

Compared == kept # None /\ last # None
K == Unwrap(kept)
L == Unwrap(last)

\* C8: two calls of a tool on the same date, one omitting optional parameters
\* and the other giving them their documented defaults, get the same answer.
C8_DefaultSubstitution ==
    (Compared /\ K.tool = L.tool /\ DateOf(K.at) = DateOf(L.at)
       /\ WithDocumentedDefaults(K.tool, K.args) = WithDocumentedDefaults(L.tool, L.args)) =>
        K.resp = L.resp

\* C8 witness: the art tool answered one call that omitted mood and, on the
\* same date, one that gave mood="vibrant".
C8_Witness ==
    /\ Compared
    /\ K.tool = "ai_art_style_transfer" /\ L.tool = "ai_art_style_transfer"
    /\ DateOf(K.at) = DateOf(L.at)
    /\ "mood" \notin DOMAIN K.args
    /\ "mood" \in DOMAIN L.args
    /\ L.args["mood"] = <<"v", "i", "b", "r", "a", "n", "t">>
    /\ K.args["art_style"] = L.args["art_style"]
    /\ K.args["image_description"] = L.args["image_description"]
    /\ K.resp.status = "ok" /\ L.resp.status = "ok"

\* C9: two calls of a tool with the same arguments on the same date get
\* identical answers, whatever was called and however far the clock moved
\* within that date in between.
C9_Idempotence ==
    (Compared /\ K.tool = L.tool /\ K.args = L.args /\ DateOf(K.at) = DateOf(L.at)) =>
        K.resp = L.resp

\* C9 witness: the same call of the podcast tool was answered at two different
\* hours of one date.
C9_Witness ==
    /\ Compared
    /\ K.tool = "ai_podcast_producer" /\ L.tool = K.tool
    /\ K.args = L.args
    /\ DateOf(K.at) = DateOf(L.at)
    /\ K.at # L.at
    /\ K.resp.status = "ok"

\* b1 and b2 are one text around the two dates d1 and d2.
DiffersOnlyInDate(b1, d1, b2, d2) ==
    \E i \in 0..Len(b1) :
        /\ i + Len(d1) <= Len(b1)
        /\ Len(b2) = Len(b1) - Len(d1) + Len(d2)
        /\ SubSeq(b1, 1, i) = SubSeq(b2, 1, i)
        /\ SubSeq(b1, i + 1, i + Len(d1)) = d1
        /\ SubSeq(b2, i + 1, i + Len(d2)) = d2
        /\ SubSeq(b1, i + Len(d1) + 1, Len(b1)) = SubSeq(b2, i + Len(d2) + 1, Len(b2))

\* The date of an instant, written as Month DD, YYYY.
DateText(dt) ==
    MonthName[dt.month] \o <<" ", DigitChar(dt.day \div 10), DigitChar(dt.day % 10), ",", " ">>
    \o decimal(dt.year)

\* C10: two calls of a tool with the same arguments on different dates get
\* answers that are equal, or differ in the one date field and nowhere else.
C10_DeterminismModuloDate ==
    (Compared /\ K.tool = L.tool /\ K.args = L.args /\ DateOf(K.at) # DateOf(L.at)) =>
        /\ K.resp.status = L.resp.status
        /\ \/ K.resp.body = L.resp.body
           \/ DiffersOnlyInDate(K.resp.body, DateText(K.at), L.resp.body, DateText(L.at))

\* C10 witness: the same call of the video-script tool was answered on
\* December 31, 2025 and on January 01, 2026, with different documents.
C10_Witness ==
    /\ Compared
    /\ K.tool = "ai_video_script_generator" /\ L.tool = K.tool
    /\ K.args = L.args
    /\ DateOf(K.at) = <<2025, 12, 31>>
    /\ DateOf(L.at) = <<2026, 1, 1>>
    /\ K.resp.status = "ok"
    /\ K.resp.body # L.resp.body

\* The positions of the parameter headings ("### ") of a document, in order.
HeadingStarts(body) ==
    SelectSeq([i \in 1..Len(body) |-> i], LAMBDA i : body[i] = "### ")

\* The two display forms the headings apply to a value.
DisplayForm(form, v) ==
    IF form = "title" THEN title(replace(v, "_", " ")) ELSE capitalize(v)

\* The heading starting at position i reads "### ", then `text`, then `suffix`.
HeadingReads(body, i, text, suffix) ==
    /\ i + Len(text) + 1 <= Len(body)
    /\ SubSeq(body, i + 1, i + Len(text)) = text
    /\ body[i + Len(text) + 1] = suffix

\* The block of template lines that follows the heading starting at position i
\* whose echoed value has length n.
SectionBlock(body, i, n) == body[i + n + 2]

\* An authorized call of a content tool that supplies the required parameters
\* has been answered.
Rendered ==
    /\ rpc = "done"
    /\ grant # None
    /\ Unwrap(req).tool \in ContentTools
    /\ RequiredParameters(Unwrap(req).tool) \subseteq DOMAIN Unwrap(req).args

\* The categories of the answered call whose supplied value is not advertised.
Unadvertised ==
    LET tool == Unwrap(req).tool
        args == Unwrap(req).args
    IN  {k \in DOMAIN Categories(tool) :
            /\ Categories(tool)[k].param \in DOMAIN args
            /\ args[Categories(tool)[k].param] \notin Advertised(tool, Categories(tool)[k].param)}

\* C11 as stated: a value outside the advertised enumeration is accepted and
\* the heading of its section holds the input literally, character for character.
C11_Original ==
    Rendered =>
        LET tool == Unwrap(req).tool
            args == Unwrap(req).args
            at == HeadingStarts(resp.body)
        IN  /\ resp.status = "ok"
            /\ Len(at) = Len(Categories(tool))
            /\ \A k \in Unadvertised :
                 HeadingReads(resp.body, at[k], args[Categories(tool)[k].param],
                              Categories(tool)[k].suffix)

\* C11 (amended): a value outside the advertised enumeration is not rejected;
\* the call succeeds, the heading of the section echoes the value in its display
\* form (underscores turned into spaces and title-cased, or capitalized), and
\* the section under it is the template's static block with the fragments of
\* the advertised values.
C11_UnadvertisedEchoed ==
    Rendered =>
        LET tool == Unwrap(req).tool
            args == Unwrap(req).args
            at == HeadingStarts(resp.body)
        IN  /\ resp.status = "ok"
            /\ Len(at) = Len(Categories(tool))
            /\ \A k \in Unadvertised :
                 LET c == Categories(tool)[k]
                     v == args[c.param]
                 IN  /\ HeadingReads(resp.body, at[k], DisplayForm(c.form, v), c.suffix)
                     /\ Len(Fragments(SectionBlock(resp.body, at[k], Len(v))))
                          = Cardinality(Advertised(tool, c.param))

\* C11 witness: the art tool answered a call whose style holds an underscore,
\* an upper-case letter and braces, and whose heading differs from the input.
C11_Witness ==
    /\ Rendered
    /\ Unwrap(req).tool = "ai_art_style_transfer"
    /\ resp.status = "ok"
    /\ 1 \in Unadvertised
    /\ Len(Unwrap(req).args["art_style"]) = MaxArgLen
    /\ DisplayForm("title", Unwrap(req).args["art_style"]) # Unwrap(req).args["art_style"]

\* `piece` occurs in `body` as a run of consecutive elements.
Holds(body, piece) ==
    \E i \in 0..(Len(body) - Len(piece)) : SubSeq(body, i + 1, i + Len(piece)) = piece

\* C12: the art tool called with image_description "a mountain lake at dawn",
\* art_style "van_gogh" and no mood answers with a document that holds the
\* heading "AI Art Style Transfer: Van Gogh", the mood section of the default
\* ("Vibrant Mood Palette"), and the processing date of the day of the call
\* written as Month DD, YYYY.
C12_VanGoghExample ==
    [][(rpc = "call" /\ rpc' = "done" /\ Unwrap(req).tool = "ai_art_style_transfer"
          /\ Unwrap(req).args = ExampleArgs) =>
          /\ resp'.status = "ok"
          /\ Holds(resp'.body,
                   <<"# AI Art Style Transfer: ", "V", "a", "n", " ", "G", "o", "g", "h", "\n">>)
          /\ Holds(resp'.body,
                   <<"### ", "V", "i", "b", "r", "a", "n", "t", " Mood Palette\n">>)
          /\ Holds(resp'.body,
                   <<"**Processing Date:** ">> \o DateText(clock) \o <<"\n">>)]_vars

\* C12 witness: the example call was answered on February 09, 2026.
C12_Witness ==
    /\ rpc = "done"
    /\ grant # None
    /\ Unwrap(req).tool = "ai_art_style_transfer"
    /\ Unwrap(req).args = ExampleArgs
    /\ resp.status = "ok"
    /\ Holds(resp.body, <<"**Processing Date:** ", "F", "e", "b", "r", "u", "a", "r", "y", " ",
                          "0", "9", ",", " ", "2", "0", "2", "6", "\n">>)

\* The eleven tools of the catalog, in the order the catalog lists them.
ElevenTools ==
    << "validate", "ai_art_style_transfer", "ai_voice_cloning_audio", "ai_podcast_producer",
       "ai_music_composer", "ai_task_automator", "ai_meeting_calendar_assistant",
       "ai_gaming_tournament_organizer", "ai_video_script_generator",
       "ai_thumbnail_designer", "ai_streamer_creator_assistant" >>

\* The names of a listing, in its order.
ListedNames(l) == [i \in DOMAIN l.tools |-> l.tools[i].name]

\* C13: the registry is complete before the first request is served and never
\* changes afterwards: whenever the server is serving, or holds a request, the
\* registry is the eleven tools in order; no step taken while serving changes
\* it; every granted tools/list returns that same sequence and changes nothing
\* of the program's state.
C13_RegistryStatic ==
    [][/\ (pc' = "serving" \/ req' # None) => registry' = ElevenTools
       /\ pc = "serving" => registry' = registry
       /\ (listing' # listing /\ listing' # None) =>
             /\ ProgramState' = ProgramState
             /\ <<req', rpc', grant', resp'>> = <<req, rpc, grant, resp>>
             /\ Unwrap(listing').status = "ok" => ListedNames(Unwrap(listing')) = ElevenTools]_vars

\* C13 witness: while serving, after the clock had moved on, a tools/list was
\* answered with eleven tools.
C13_Witness ==
    /\ listing # None
    /\ Unwrap(listing).status = "ok"
    /\ Len(Unwrap(listing).tools) = 11
    /\ ticks > 0
    /\ pc = "serving"

\* C14: authentication and routing errors are per request: a request with the
\* right token and a registered tool is granted and, after any number of
\* denied and unknown-tool requests, gets the answer the same request got on
\* the same date before anything had failed.
C14_NoLockout ==
    /\ (last # None /\ L.token = Unwrap(TOKEN) /\ L.tool \in Range(ToolOrder)
          /\ RequiredParameters(L.tool) \subseteq DOMAIN L.args) =>
          /\ L.grant # None
          /\ L.resp.status = "ok"
    /\ (Compared /\ K.token = L.token /\ K.tool = L.tool /\ K.args = L.args
          /\ DateOf(K.at) = DateOf(L.at)) =>
          /\ L.grant # None
          /\ L.resp = K.resp

\* C14 witness: the art tool answered the same call twice on one date, first
\* before any failure and then directly after MaxFailures failed requests.
C14_Witness ==
    /\ Compared
    /\ K.tool = "ai_art_style_transfer"
    /\ L.tool = K.tool /\ L.args = K.args /\ L.token = K.token
    /\ DateOf(K.at) = DateOf(L.at)
    /\ K.failures = 0
    /\ L.failures = MaxFailures
    /\ L.resp.status = "ok"

\* A registered description carries a "use when" hint: it is a JSON object
\* with a non-empty use_when field.
HasUseWhen(description) ==
    \E i \in 1..(Len(description) - 1) :
        description[i] = "\"use_when\":" /\ description[i + 1] # ""

\* The parameters whose description names no values: they take free text.
FreeText == {"image_description", "podcast_topic"}

\* The listing a tools/list was answered with.
Listed == Unwrap(listing).tools

\* C15 as stated: every listed tool, validate included, carries a name, a
\* description, a "use when" hint, and a parameter list in which every
\* parameter has a description and suggested values.
C15_Original ==
    (listing # None /\ Unwrap(listing).status = "ok") =>
        \A i \in DOMAIN Listed :
            /\ Listed[i].name # ""
            /\ Listed[i].description # <<>>
            /\ HasUseWhen(Listed[i].description)
            /\ Listed[i].parameters # <<>>
            /\ \A j \in DOMAIN Listed[i].parameters :
                  /\ Listed[i].parameters[j].description # ""
                  /\ Advertised(Listed[i].name, Listed[i].parameters[j].name) # {}

\* C15 (amended): every listed tool carries a name and a description; each of
\* the ten content tools carries a "use when" hint and three parameters, each
\* with a description, and each but the free-text image_description and
\* podcast_topic with suggested values; validate carries neither a "use when"
\* hint nor any parameter.
C15_CatalogEntries ==
    (listing # None /\ Unwrap(listing).status = "ok") =>
        \A i \in DOMAIN Listed :
            /\ Listed[i].name # ""
            /\ Listed[i].description # <<>>
            /\ \A k \in DOMAIN Listed[i].description : Listed[i].description[k] # ""
            /\ IF Listed[i].name = "validate"
               THEN /\ ~HasUseWhen(Listed[i].description)
                    /\ Listed[i].parameters = <<>>
               ELSE /\ HasUseWhen(Listed[i].description)
                    /\ Len(Listed[i].parameters) = 3
                    /\ \A j \in DOMAIN Listed[i].parameters :
                          LET p == Listed[i].parameters[j] IN
                          /\ p.description # ""
                          /\ (Advertised(Listed[i].name, p.name) # {}) <=> (p.name \notin FreeText)
                          /\ p.default # None => Unwrap(p.default) \in Advertised(Listed[i].name, p.name)

\* C15 witness: a tools/list was answered with validate, which has no
\* parameter, and with the podcast tool, whose first parameter is free text.
C15_Witness ==
    /\ listing # None
    /\ Unwrap(listing).status = "ok"
    /\ \E i, j \in DOMAIN Listed :
          /\ Listed[i].name = "validate"
          /\ Listed[i].parameters = <<>>
          /\ Listed[j].name = "ai_podcast_producer"
          /\ Listed[j].parameters[1].name = "podcast_topic"
          /\ HasUseWhen(Listed[j].description)

\* The value a parameter is bound to in the answered call: the supplied one,
\* or the default of the signature.
BoundValue(tool, args, p) ==
    IF p \in DOMAIN args THEN args[p] ELSE Unwrap(Param(tool, p).default)

\* The keys of the fragments a block holds.
FragmentKeys(block) == {Fragments(block)[i].key : i \in DOMAIN Fragments(block)}

\* C16 as stated: for each category of a tool the fragment whose key matches
\* the supplied value is selected: the rendered section holds the fragment of
\* that value and, being chosen by the value, no fragment of another value.
C16_Original ==
    Rendered =>
        LET tool == Unwrap(req).tool
            args == Unwrap(req).args
            at == HeadingStarts(resp.body)
        IN  \A k \in DOMAIN Categories(tool) :
               LET v == BoundValue(tool, args, Categories(tool)[k].param) IN
               v \in Advertised(tool, Categories(tool)[k].param) =>
                   FragmentKeys(SectionBlock(resp.body, at[k], Len(v))) = {v}

\* C16 (amended): nothing is selected: for each category of a tool the
\* rendered section holds the fragments of every advertised value, the
\* supplied value's among them when it is advertised, whatever value was
\* supplied; the value itself shows in the heading of the section only.
C16_AllFragments ==
    Rendered =>
        LET tool == Unwrap(req).tool
            args == Unwrap(req).args
            at == HeadingStarts(resp.body)
        IN  \A k \in DOMAIN Categories(tool) :
               LET c == Categories(tool)[k]
                   v == BoundValue(tool, args, c.param)
               IN  /\ HeadingReads(resp.body, at[k], DisplayForm(c.form, v), c.suffix)
                   /\ FragmentKeys(SectionBlock(resp.body, at[k], Len(v)))
                        = Advertised(tool, c.param)
                   /\ v \in Advertised(tool, c.param) =>
                        v \in FragmentKeys(SectionBlock(resp.body, at[k], Len(v)))

\* C16 witness: the art tool was called with the advertised style van_gogh and
\* the section of the style holds the fragment of picasso as well.
C16_Witness ==
    /\ Rendered
    /\ Unwrap(req).tool = "ai_art_style_transfer"
    /\ Unwrap(req).args = ExampleArgs
    /\ resp.status = "ok"
    /\ LET blk == SectionBlock(resp.body, HeadingStarts(resp.body)[1], Len(ExampleStyle)) IN
          /\ ExampleStyle \in FragmentKeys(blk)
          /\ <<"p", "i", "c", "a", "s", "s", "o">> \in FragmentKeys(blk)

\* The characters an argument or a date is written with; every other element
\* of a document is a piece of the template's own prose.
Characters ==
    lowercase \cup uppercase \cup {digits[i] : i \in DOMAIN digits} \cup {"_", " ", "{", "}", ","}

\* The static prose of a document, in order.
Skeleton(body) == SelectSeq(body, LAMBDA a : a \notin Characters)

\* The positions of the static prose of a document, in order.
StaticAt(body) ==
    SelectSeq([i \in 1..Len(body) |-> i], LAMBDA i : body[i] \notin Characters)

\* The text substituted between the g-th piece of static prose and the next.
Slot(body, at, g) == SubSeq(body, at[g] + 1, at[g + 1] - 1)

\* The texts a call may substitute: its date, and every bound value as it is
\* or in one of the two display forms.
Substituted(r) ==
    {DateText(r.at)}
    \cup UNION { {BoundValue(r.tool, r.args, p),
                  DisplayForm("title", BoundValue(r.tool, r.args, p)),
                  DisplayForm("capitalize", BoundValue(r.tool, r.args, p))}
                 : p \in ParamNames(r.tool) }

\* C17: the template of a tool is fixed: the answers to any two calls of the
\* tool hold the same static blocks in the same order, begin and end with
\* static prose, and where the text between two neighbouring blocks differs it
\* is, in each answer, the date or a value of that call.
C17_FixedTemplate ==
    (Compared /\ K.tool = L.tool /\ K.tool \in ContentTools
       /\ K.resp.status = "ok" /\ L.resp.status = "ok") =>
        LET kb == K.resp.body
            lb == L.resp.body
            ka == StaticAt(kb)
            la == StaticAt(lb)
        IN  /\ Skeleton(kb) = Skeleton(lb)
            /\ ka[1] = 1 /\ la[1] = 1
            /\ ka[Len(ka)] = Len(kb) /\ la[Len(la)] = Len(lb)
            /\ \A g \in 1..(Len(ka) - 1) :
                  Slot(kb, ka, g) # Slot(lb, la, g) =>
                      /\ Slot(kb, ka, g) \in Substituted(K)
                      /\ Slot(lb, la, g) \in Substituted(L)

\* C17 witness: the art tool answered two calls that differ in their
\* arguments and in their dates with two different documents.
C17_Witness ==
    /\ Compared
    /\ K.tool = "ai_art_style_transfer" /\ L.tool = K.tool
    /\ K.resp.status = "ok" /\ L.resp.status = "ok"
    /\ K.args # L.args
    /\ DateOf(K.at) # DateOf(L.at)
    /\ K.resp.body # L.resp.body
    /\ Len(Skeleton(K.resp.body)) > 10
    /\ \E p \in DOMAIN L.args : L.args[p] \notin Advertised(L.tool, p) /\ L.args[p] # <<>>

\* The process-wide state: the configured secret and identifier (in the
\* environment and in the module's globals), the token the auth provider
\* stores, and the registry.
ProcessWide == <<environ, TOKEN, MY_NUMBER, auth, registry>>

\* C18: no step of an invocation, from its arrival to the delivery of its
\* answer, be the answer a document, a 401 or an error, changes the configured
\* secret, the configured identifier, the provider's stored token or the
\* registry.
C18_InvocationFrame ==
    [][(req # None \/ req' # None) => ProcessWide' = ProcessWide]_vars

\* C18 witness: a call of the music tool was answered with a document and the
\* secret, the identifier, the provider's token and the registry are what the
\* startup made them.
C18_Witness ==
    /\ rpc = "done"
    /\ Unwrap(req).tool = "ai_music_composer"
    /\ resp.status = "ok"
    /\ resp.handler = "ai_music_composer"
    /\ TOKEN = Some(SecretSample)
    /\ MY_NUMBER = Some(NumberSample)
    /\ auth = Some([token |-> SecretSample])
    /\ registry = ToolOrder

\* C20: the authorization decision has no session state: a request is granted
\* exactly when the token it presents is the configured secret, whatever
\* happened to the requests before it; a wrong token is denied and runs nothing
\* even directly after a granted request, and the grant of a request is made
\* for the token of that request.
C20_NoSessionState ==
    /\ last # None =>
          /\ (L.grant # None) <=> (L.token = Unwrap(environ.AUTH_TOKEN))
          /\ L.grant # None => Unwrap(L.grant).token = L.token
          /\ L.grant = None => (L.resp.status = "401" /\ L.resp.handler = "")
    /\ Compared =>
          /\ (L.token = K.token) <=> (L.grant = K.grant)
          /\ (L.token # K.token) <=> (L.grant = None)

\* C20 witness: a request that presented a proper prefix of the secret was
\* denied directly after a granted request, and an earlier granted answer is
\* still remembered by the caller.
C20_Witness ==
    /\ Compared
    /\ K.grant # None
    /\ L.after_grant
    /\ L.token = Prefix(SecretSample, 1)
    /\ L.grant = None
    /\ L.resp.status = "401"

\* The invocation in slot i is the same call before and after the step.
SameCall(i) ==
    /\ i \in DOMAIN inflight'
    /\ inflight'[i].tool = inflight[i].tool
    /\ inflight'[i].args = inflight[i].args

\* C19: however the steps of concurrently served invocations interleave, the
\* result an invocation gets is the result of its own call served alone at
\* that instant; a step of one invocation changes no other invocation, no
\* result waiting to be sent, and nothing of the process-wide state; no lock
\* is taken anywhere.
C19_Interleaving ==
    [][/\ ProcessWide' = ProcessWide
       /\ \A i \in DOMAIN inflight :
             /\ (inflight[i].phase # "return" /\ SameCall(i) /\ inflight'[i].phase = "return") =>
                   /\ inflight'[i].resp = CallResult(inflight[i].tool, inflight[i].args)
                   /\ \A j \in DOMAIN inflight \ {i} : inflight'[j] = inflight[j]
             /\ (inflight[i].phase = "return" /\ SameCall(i) /\ inflight'[i].phase = "return") =>
                   inflight'[i].resp = inflight[i].resp]_vars

\* C19 witness: two calls of the art tool with different arguments are in
\* flight, the one accepted first has its result, which echoes its own style,
\* while the one accepted after it has bound its arguments and not yet returned.
C19_Witness ==
    /\ Len(inflight) = 2
    /\ inflight[1].tool = "ai_art_style_transfer"
    /\ inflight[2].tool = "ai_art_style_transfer"
    /\ inflight[1].args = ExampleArgs
    /\ inflight[2].args # ExampleArgs
    /\ inflight[2].phase = "render"
    /\ inflight[1].phase = "return"
    /\ inflight[1].resp.status = "ok"
    /\ Holds(inflight[1].resp.body, <<"**Target Style:** ", "V", "a", "n", " ", "G", "o", "g", "h", "\n">>)

\* The optional parameters of a listing: pairs of a tool and one of its
\* parameters that declares a default.
OptionalListed ==
    {<<i, j>> \in (DOMAIN Listed) \X (1..3) :
        j \in DOMAIN Listed[i].parameters /\ ~Listed[i].parameters[j].required}

\* C22: for every tool and every optional parameter of it, the declared
\* default is one of the values the parameter's description advertises.
C22_DefaultsAdvertised ==
    (listing # None /\ Unwrap(listing).status = "ok") =>
        \A ij \in OptionalListed :
            LET t == Listed[ij[1]]
                p == t.parameters[ij[2]]
            IN  /\ p.default # None
                /\ Unwrap(p.default) \in Advertised(t.name, p.name)

\* C22 witness: a tools/list was answered; the video tool declares "general"
\* and "medium", the streamer tool "gaming" and "beginner", and nineteen
\* parameters in all declare a default.
C22_Witness ==
    /\ listing # None
    /\ Unwrap(listing).status = "ok"
    /\ Cardinality(OptionalListed) = 19
    /\ \E i \in DOMAIN Listed :
          /\ Listed[i].name = "ai_video_script_generator"
          /\ Listed[i].parameters[2].default = Some(<<"g", "e", "n", "e", "r", "a", "l">>)
          /\ Listed[i].parameters[3].default = Some(<<"m", "e", "d", "i", "u", "m">>)
    /\ \E i \in DOMAIN Listed :
          /\ Listed[i].name = "ai_streamer_creator_assistant"
          /\ Listed[i].parameters[2].default = Some(<<"g", "a", "m", "i", "n", "g">>)

\* Both settings are present in the environment, with whatever value.
BothSet == environ.AUTH_TOKEN # None /\ environ.MY_NUMBER # None

\* C23: the startup check is a presence check: the process fails only when
\* AUTH_TOKEN or MY_NUMBER is absent and serves only when both are present; a
\* setting whose value is the empty string passes, and then the provider's
\* secret, or the identifier, is the empty string while the process serves.
C23_PresenceCheck ==
    /\ pc = "failed" => ~BothSet
    /\ pc \in {"construct", "register", "serving"} => BothSet
    /\ pc = "serving" =>
          /\ listening # None
          /\ auth = Some([token |-> Unwrap(environ.AUTH_TOKEN)])
          /\ MY_NUMBER = environ.MY_NUMBER

\* C23 witness: the process serves with AUTH_TOKEN and MY_NUMBER both set to
\* the empty string.
C23_Witness ==
    /\ pc = "serving"
    /\ listening # None
    /\ environ.AUTH_TOKEN = Some(<<>>)
    /\ environ.MY_NUMBER = Some(<<>>)
    /\ auth = Some([token |-> <<>>])

\* The free-text parameter of a tool, if it has one.
FreeTextOf(tool) ==
    IF tool = "ai_art_style_transfer" THEN "image_description" ELSE "podcast_topic"

\* The places of a document where the text between two neighbouring pieces of
\* static prose is `text`.
SlotsReading(body, text) ==
    LET at == StaticAt(body) IN {g \in 1..(Len(at) - 1) : Slot(body, at, g) = text}

\* The non-empty proper prefixes of a text.
Truncations(v) == {SubSeq(v, 1, n) : n \in 1..(Len(v) - 1)}

\* What the other two parameters of the answered call are displayed as.
OtherDisplays(tool, args) ==
    {DisplayForm(Categories(tool)[k].form, BoundValue(tool, args, Categories(tool)[k].param))
        : k \in DOMAIN Categories(tool)}

\* C28: the free-text parameters are echoed verbatim at every place they
\* appear, once for image_description and thirty-two times for podcast_topic:
\* the text is not re-cased, its underscores are kept, it is not cut short, and
\* braces in it come out as they went in.
C28_FreeTextVerbatim ==
    (Rendered /\ Unwrap(req).tool \in {"ai_art_style_transfer", "ai_podcast_producer"}
       /\ Unwrap(req).args[FreeTextOf(Unwrap(req).tool)] # <<>>) =>
        LET tool == Unwrap(req).tool
            args == Unwrap(req).args
            v == args[FreeTextOf(tool)]
            changed == ({DisplayForm("title", v), DisplayForm("capitalize", v),
                         replace(v, "_", " "), SelectSeq(v, LAMBDA c : c \notin {"{", "}"})}
                        \cup Truncations(v)) \ ({v} \cup OtherDisplays(tool, args))
        IN  /\ resp.status = "ok"
            /\ v \notin OtherDisplays(tool, args) =>
                  Cardinality(SlotsReading(resp.body, v))
                     = (IF tool = "ai_art_style_transfer" THEN 1 ELSE 32)
            /\ \A c \in changed : SlotsReading(resp.body, c) = {}

\* C28 witness: the podcast tool answered a call whose topic holds an
\* underscore, an upper-case letter and a pair of braces, and the title line of
\* the document holds the topic as it was given.
C28_Witness ==
    /\ Rendered
    /\ Unwrap(req).tool = "ai_podcast_producer"
    /\ resp.status = "ok"
    /\ LET v == Unwrap(req).args["podcast_topic"] IN
          /\ \E i, j, k, l \in DOMAIN v :
                v[i] = "_" /\ v[j] = "{" /\ v[k] = "}" /\ v[l] \in uppercase
          /\ Holds(resp.body, <<"# AI Podcast Producer: ">> \o v \o <<"\n">>)

\* The two compared calls display every enumerated parameter alike.
SameDisplay ==
    \A k \in DOMAIN Categories(K.tool) :
        LET c == Categories(K.tool)[k] IN
        DisplayForm(c.form, BoundValue(K.tool, K.args, c.param))
          = DisplayForm(c.form, BoundValue(L.tool, L.args, c.param))

\* The two compared calls pass the same free text.
SameFreeText ==
    BoundValue(K.tool, K.args, FreeTextOf(K.tool)) = BoundValue(L.tool, L.args, FreeTextOf(L.tool))

\* C26 as stated: two calls of a tool on the same date whose arguments differ
\* but display every enumerated parameter alike get the same document.
C26_Original ==
    (Compared /\ K.tool = L.tool /\ K.args # L.args /\ DateOf(K.at) = DateOf(L.at)
       /\ SameDisplay) =>
        K.resp = L.resp

\* C26 (amended): an enumerated parameter reaches the document only through
\* its display form: two calls of a tool on the same date that pass the same
\* free text, if the tool takes any, and display every enumerated parameter
\* alike get the same document, however the values are spelled and whether a
\* default is spelled out or left out.
C26_DisplayFormOnly ==
    (Compared /\ K.tool = L.tool /\ K.args # L.args /\ DateOf(K.at) = DateOf(L.at)
       /\ SameDisplay /\ SameFreeText) =>
        /\ K.resp.status = "ok"
        /\ K.resp = L.resp

\* C26 witness: the art tool got art_style "van_gogh" with the mood left out
\* and, on the same date, art_style "VAN_GOGH" with mood "VIBRANT", and
\* answered both with one and the same document.
C26_Witness ==
    /\ Compared
    /\ K.tool = "ai_art_style_transfer" /\ L.tool = K.tool
    /\ K.args = ExampleArgs
    /\ DOMAIN L.args = {"image_description", "art_style", "mood"}
    /\ L.args["art_style"] = <<"V", "A", "N", "_", "G", "O", "G", "H">>
    /\ L.args["mood"] = <<"V", "I", "B", "R", "A", "N", "T">>
    /\ DateOf(K.at) = DateOf(L.at)
    /\ K.resp.status = "ok"
    /\ K.resp = L.resp

\* A text holds an underscore.
HasUnderscore(s) == \E i \in DOMAIN s : s[i] = "_"

\* One of the values a parameter advertises holds an underscore.
AdvertisesUnderscore(tool, p) == \E a \in Advertised(tool, p) : HasUnderscore(a)

\* The texts of the answered call in which an underscore may show: the free
\* text, and the display of a value that is not an advertised one.
UnderscoreSources(tool, args) ==
    (IF tool \in {"ai_art_style_transfer", "ai_podcast_producer"}
     THEN {BoundValue(tool, args, FreeTextOf(tool))} ELSE {})
    \cup {DisplayForm(Categories(tool)[k].form, BoundValue(tool, args, Categories(tool)[k].param))
            : k \in {j \in DOMAIN Categories(tool) :
                       BoundValue(tool, args, Categories(tool)[j].param)
                          \notin Advertised(tool, Categories(tool)[j].param)}}

\* C27 as stated, for the listed tools: a parameter is rendered with
\* capitalize() exactly when none of its advertised values holds an underscore.
C27_Original ==
    (listing # None /\ Unwrap(listing).status = "ok") =>
        \A i \in DOMAIN Listed :
            \A k \in DOMAIN Categories(Listed[i].name) :
                LET c == Categories(Listed[i].name)[k] IN
                (c.form = "capitalize") <=> ~AdvertisesUnderscore(Listed[i].name, c.param)

\* C27 (amended): every parameter that advertises a value with an underscore
\* is rendered with underscores replaced by spaces and title-cased, and every
\* parameter rendered with capitalize() advertises no underscore (some
\* title-cased parameters advertise none either); so in a document an
\* underscore shows only in the free text or in the display of a value that is
\* not advertised, never in that of an advertised value or a default.
C27_NoAdvertisedUnderscore ==
    /\ (listing # None /\ Unwrap(listing).status = "ok") =>
          \A i \in DOMAIN Listed :
              \A k \in DOMAIN Categories(Listed[i].name) :
                  LET c == Categories(Listed[i].name)[k] IN
                  /\ AdvertisesUnderscore(Listed[i].name, c.param) => c.form = "title"
                  /\ c.form = "capitalize" => ~AdvertisesUnderscore(Listed[i].name, c.param)
    /\ Rendered =>
          LET tool == Unwrap(req).tool
              args == Unwrap(req).args
              at == StaticAt(resp.body)
          IN  \A g \in 1..(Len(at) - 1) :
                 HasUnderscore(Slot(resp.body, at, g)) =>
                     Slot(resp.body, at, g) \in UnderscoreSources(tool, args)

\* C27 witness: the gaming tool answered a call that left format_type to its
\* default single_elimination, and the document reads "Single Elimination".
C27_Witness ==
    /\ Rendered
    /\ Unwrap(req).tool = "ai_gaming_tournament_organizer"
    /\ "format_type" \notin DOMAIN Unwrap(req).args
    /\ resp.status = "ok"
    /\ Holds(resp.body, <<"### ", "S", "i", "n", "g", "l", "e", " ", "E", "l", "i", "m", "i", "n",
                          "a", "t", "i", "o", "n", " Format Guide\n">>)

\* The instant n hours after dt.
RECURSIVE HoursAfter(_, _)
HoursAfter(dt, n) == IF n = 0 THEN dt ELSE HoursAfter(NextHour(dt), n - 1)

\* The dates the clock can show in a run that starts serving on December 31,
\* 2025 at 22h.
DatesOfRun ==
    {DateText(HoursAfter([year |-> 2025, month |-> 12, day |-> 31, hour |-> 22], n))
        : n \in 0..MaxTicks}

\* The places of a document that read as a date.
DateSlots(body) ==
    LET at == StaticAt(body) IN {g \in 1..(Len(at) - 1) : Slot(body, at, g) \in DatesOfRun}

\* C25: a render reads the clock once: the document an invocation of a content
\* tool returns holds exactly one date, the date at the instant of its render,
\* and keeps it while the clock moves on before it is sent and while other
\* invocations are rendered.
C25_OneDate ==
    [][\A i \in {j \in DOMAIN inflight : inflight[j].tool \in ContentTools} :
          /\ (inflight[i].phase = "render" /\ SameCall(i) /\ inflight'[i].phase = "return") =>
                /\ inflight'[i].resp.status = "ok"
                /\ Cardinality(DateSlots(inflight'[i].resp.body)) = 1
                /\ SlotsReading(inflight'[i].resp.body, DateText(clock))
                     = DateSlots(inflight'[i].resp.body)
          /\ (inflight[i].phase = "return" /\ SameCall(i) /\ inflight'[i].phase = "return") =>
                DateSlots(inflight'[i].resp.body) = DateSlots(inflight[i].resp.body)]_vars

\* C25 witness: two documents of the art tool wait to be sent, one rendered on
\* December 31, 2025 and one, after midnight, on January 01, 2026.
C25_Witness ==
    /\ Len(inflight) = 2
    /\ inflight[1].phase = "return" /\ inflight[2].phase = "return"
    /\ inflight[1].tool = "ai_art_style_transfer" /\ inflight[2].tool = "ai_art_style_transfer"
    /\ inflight[1].resp.status = "ok" /\ inflight[2].resp.status = "ok"
    /\ Holds(inflight[1].resp.body,
             <<"**Processing Date:** ", "D", "e", "c", "e", "m", "b", "e", "r", " ", "3", "1",
               ",", " ", "2", "0", "2", "5", "\n">>)
    /\ Holds(inflight[2].resp.body,
             <<"**Processing Date:** ", "J", "a", "n", "u", "a", "r", "y", " ", "0", "1",
               ",", " ", "2", "0", "2", "6", "\n">>)
    /\ clock.day = 1

\* What a slot holds when its invocation never started or has left: no frame
\* and no result.
Vacant(r) == r.frame = None /\ r.resp = NoResponse

\* C21: cancelling an invocation, wherever it stands, leaves nothing of it
\* behind: the step changes no other invocation and nothing of the process
\* (configuration, provider, registry, port, clock), the cancelled slot holds
\* neither frame nor result, and every invocation that completes, be it taken
\* on before or after a cancellation, gets the result of its call served alone.
C21_CancelLeavesNothing ==
    [][\A i \in DOMAIN inflight :
          /\ (inflight[i].phase # "cancelled" /\ i \in DOMAIN inflight'
                /\ inflight'[i].phase = "cancelled") =>
                /\ ProcessWide' = ProcessWide
                /\ <<pc, listening, clock, ticks>>' = <<pc, listening, clock, ticks>>
                /\ Vacant(inflight'[i])
                /\ \A j \in DOMAIN inflight \ {i} : inflight'[j] = inflight[j]
          /\ (inflight[i].phase \in {"bind", "render"} /\ SameCall(i)
                /\ inflight'[i].phase = "return") =>
                inflight'[i].resp = CallResult(inflight[i].tool, inflight[i].args)]_vars

\* C21 witness: an invocation was cancelled, and an invocation of the art tool
\* taken on after that has its document.
C21_Witness ==
    /\ Len(inflight) = 2
    /\ inflight[1].phase = "cancelled"
    /\ inflight[2].after_cancel
    /\ inflight[2].tool = "ai_art_style_transfer"
    /\ inflight[2].phase = "return"
    /\ inflight[2].resp.status = "ok"

\* C24: for two runs that differ in the configured secret, the configured
\* identifier or the accepted token, every content tool answers the same call
\* on the same date with the same document; validate answers with the
\* identifier of its run and so differs only when the identifiers do; no
\* answer depends on the secret.
C24_NoDisclosure ==
    /\ (last # None /\ L.tool = "validate") => L.resp.body = L.number
    /\ (Compared /\ K.tool = L.tool /\ K.args = L.args /\ DateOf(K.at) = DateOf(L.at)) =>
          /\ K.tool \in ContentTools => K.resp = L.resp
          /\ K.number = L.number => K.resp = L.resp
          /\ (K.tool = "validate" /\ K.number # L.number) => K.resp # L.resp

\* C24 witness: the art tool answered the example call on one date in two
\* runs that differ in secret, identifier and presented token, with one and the
\* same document.
C24_Witness ==
    /\ Compared
    /\ K.tool = "ai_art_style_transfer" /\ L.tool = K.tool /\ K.args = L.args
    /\ DateOf(K.at) = DateOf(L.at)
    /\ K.secret # L.secret
    /\ K.number # L.number
    /\ K.token # L.token
    /\ K.resp.status = "ok"
    /\ K.resp = L.resp

====
